---- MODULE Spec2Model ----
(***************************************************************************)
(* Model of iamcompact_nomenclature: the hierarchical name helpers of      *)
(* var_utils.py, the aggregation checks of aggregation.py, the region      *)
(* validation of validation.py, map_regions of mapping.py and the merge    *)
(* of region processors of multi_load.py.                                  *)
(*                                                                         *)
(* Every public function is one atomic action.  The state records one     *)
(* call: the function (op), the arguments it receives (args), whether it   *)
(* has run (pc) and what it returned or raised (ret).  The definitions     *)
(* and the region processor are cached in module globals (_dsd,            *)
(* _region_processor), one pair for the package and one for its module     *)
(* default_definitions.  A run is either one call of one of these          *)
(* functions (check_var_aggregates may be called a second time), or a      *)
(* sequence of get_dsd and get_region_processor calls.                     *)
(*                                                                         *)
(* Variable names are Python strings; they are modelled as sequences of    *)
(* one-character strings so that startswith, count, split and join are     *)
(* computed character by character as str does.                            *)
(***************************************************************************)
EXTENDS Integers, Sequences, FiniteSets, TLC

VARIABLES op, args, ret, pc, _dsd, _region_processor, loads, history

\* the module globals that cache what was loaded, the number of objects
\* loaded so far and the calls of the loading functions made so far
cache_vars == <<_dsd, _region_processor, loads, history>>

vars == <<op, args, ret, pc, _dsd, _region_processor, loads, history>>

(***************************************************************************)
(* Bounds of the model.                                                    *)
(***************************************************************************)
\* largest num_sublevels passed to get_component_vars (smallest is -1)
MaxSublevels == 3
\* datapoint values are 1..MaxValue
MaxValue == 3
\* largest number of keywords passed beyond the signature
MaxKwargs == 2
\* largest number of get_dsd / get_region_processor calls in a run
MaxCalls == 4
\* largest number of region processors merged in one call
MaxProcessors == 3

(***************************************************************************)
(* Python's None and optional values: None is the empty tuple, a present   *)
(* value x is the one-element tuple <<x>>.                                 *)
(***************************************************************************)
None == << >>

Some(x) == <<x>>

IsNone(o) == o = << >>

(***************************************************************************)
(* Strings.                                                                *)
(***************************************************************************)
\* default value of the `sep` parameter
Sep == "|"

\* str.startswith
StartsWith(s, prefix) ==
    /\ Len(prefix) <= Len(s)
    /\ SubSeq(s, 1, Len(prefix)) = prefix

\* str.count for a one-character pattern
Count(s, c) == Cardinality({i \in 1..Len(s) : s[i] = c})

\* `sep in varname`
Contains(s, c) == \E i \in 1..Len(s) : s[i] = c

\* str.split(sep): the segments between separators (always at least one)
RECURSIVE Split(_, _)
Split(s, c) ==
    IF ~Contains(s, c) THEN <<s>>
    ELSE LET i == CHOOSE k \in 1..Len(s) :
                      s[k] = c /\ \A j \in 1..(k - 1) : s[j] # c
         IN  <<SubSeq(s, 1, i - 1)>> \o Split(SubSeq(s, i + 1, Len(s)), c)

\* sep.join(segments)
RECURSIVE Join(_, _)
Join(segs, c) ==
    IF Len(segs) = 0 THEN << >>
    ELSE IF Len(segs) = 1 THEN segs[1]
    ELSE segs[1] \o <<c>> \o Join(Tail(segs), c)

(***************************************************************************)
(* The names the inputs are drawn from, in str order ("|" sorts after      *)
(* digits and letters).  "A|12" shares the character prefix "A|1" with     *)
(* the children of "A|1" without being one of them.                        *)
(***************************************************************************)
NameUniverse ==
    << <<"A">>,
       <<"A", "|", "1">>,
       <<"A", "|", "1", "2">>,
       <<"A", "|", "1", "2", "|", "x">>,
       <<"A", "|", "1", "|", "x">>,
       <<"A", "|", "1", "|", "x", "|", "y">>,
       <<"A", "|", "2">>,
       <<"B">> >>

Names == {NameUniverse[i] : i \in 1..Len(NameUniverse)}

\* the `variable` attribute of an IamDataFrame holding the names in S:
\* a list without duplicates, in index order
VarList(S) == SelectSeq(NameUniverse, LAMBDA n : n \in S)

SeqToSet(q) == {q[i] : i \in 1..Len(q)}

(***************************************************************************)
(* var_utils.get_aggregate_var                                             *)
(***************************************************************************)
\* variant that returns the highest candidate found, trying i = 1, ..., hi
AggregateSearch_FromRoot(components, idf_vars, i) ==
    LET found == {j \in 1..i :
                     Join(SubSeq(components, 1, j), Sep) \in SeqToSet(idf_vars)}
    IN  IF found = {} THEN None
        ELSE Some(Join(SubSeq(components, 1,
                              CHOOSE j \in found : \A k \in found : j <= k),
                       Sep))

\* first candidate found in idf_vars, trying i = hi, hi-1, ..., 1
RECURSIVE AggregateSearch(_, _, _)
AggregateSearch(components, idf_vars, i) ==
    IF i < 1 THEN None
    ELSE LET candidate == Join(SubSeq(components, 1, i), Sep)
         IN  IF candidate \in SeqToSet(idf_vars) THEN Some(candidate)
             ELSE AggregateSearch(components, idf_vars, i - 1)

\* variant without the early return for a name without separator
get_aggregate_var_NoTopLevelGuard(varname, iamdf, check_all_levels) ==
    IF IsNone(iamdf)
    THEN LET parts == Split(varname, Sep)
         IN  Some(Join(SubSeq(parts, 1, Len(parts) - 1), Sep))
    ELSE LET idf_vars == iamdf[1]
             varname_components == Split(varname, Sep)
         IN  AggregateSearch(varname_components, idf_vars,
                             IF check_all_levels
                             THEN Len(varname_components)
                             ELSE Len(varname_components) - 1)

\* variant that searches all levels whatever check_all_levels is
get_aggregate_var_AlwaysAllLevels(varname, iamdf, check_all_levels) ==
    IF ~Contains(varname, Sep) THEN None
    ELSE IF IsNone(iamdf)
    THEN LET parts == Split(varname, Sep)
         IN  Some(Join(SubSeq(parts, 1, Len(parts) - 1), Sep))
    ELSE LET varname_components == Split(varname, Sep)
         IN  AggregateSearch(varname_components, iamdf[1],
                             Len(varname_components) - 1)

\* iamdf is None or Some(list of the variables of the IamDataFrame)
get_aggregate_var(varname, iamdf, check_all_levels) ==
    IF ~Contains(varname, Sep) THEN None
    ELSE IF IsNone(iamdf)
    THEN LET parts == Split(varname, Sep)
         IN  Some(Join(SubSeq(parts, 1, Len(parts) - 1), Sep))
    ELSE LET idf_vars == iamdf[1]
             varname_components == Split(varname, Sep)
         IN  IF check_all_levels
             THEN AggregateSearch(varname_components, idf_vars,
                                  Len(varname_components) - 1)
             ELSE LET candidate ==
                          Join(SubSeq(varname_components, 1,
                                      Len(varname_components) - 1), Sep)
                  IN  IF candidate \in SeqToSet(idf_vars)
                      THEN Some(candidate) ELSE None

(***************************************************************************)
(* var_utils.get_component_vars                                            *)
(***************************************************************************)
\* variant with a strict depth comparison
get_component_vars_StrictDepth(varname, idf_vars, num_sublevels) ==
    IF varname \notin SeqToSet(idf_vars) THEN << >>
    ELSE SelectSeq(idf_vars, LAMBDA _var :
             /\ StartsWith(_var, varname \o <<Sep>>)
             /\ \/ IsNone(num_sublevels)
                \/ Count(_var, Sep) - Count(varname, Sep) < num_sublevels[1])

\* variant matching on the bare name, without the separator
get_component_vars_BarePrefix(varname, idf_vars, num_sublevels) ==
    IF varname \notin SeqToSet(idf_vars) THEN << >>
    ELSE SelectSeq(idf_vars, LAMBDA _var :
             /\ StartsWith(_var, varname)
             /\ \/ IsNone(num_sublevels)
                \/ Count(_var, Sep) - Count(varname, Sep) <= num_sublevels[1])

\* variant counting the depth from the root instead of from varname
get_component_vars_DepthFromRoot(varname, idf_vars, num_sublevels) ==
    IF varname \notin SeqToSet(idf_vars) THEN << >>
    ELSE SelectSeq(idf_vars, LAMBDA _var :
             /\ StartsWith(_var, varname \o <<Sep>>)
             /\ \/ IsNone(num_sublevels)
                \/ Count(_var, Sep) - Count(varname, Sep) <= num_sublevels[1] + 1)

\* idf_vars is the variable list of the IamDataFrame; num_sublevels is None
\* or Some(integer)
get_component_vars(varname, idf_vars, num_sublevels) ==
    IF varname \notin SeqToSet(idf_vars) THEN << >>
    ELSE SelectSeq(idf_vars, LAMBDA _var :
             /\ StartsWith(_var, varname \o <<Sep>>)
             /\ \/ IsNone(num_sublevels)
                \/ Count(_var, Sep) - Count(varname, Sep) <= num_sublevels[1])

(***************************************************************************)
(* Datasets (pyam.IamDataFrame).  A datapoint is keyed by its group, the   *)
(* (model, scenario, region, unit, time) part of the index, and by its     *)
(* variable; a dataset is a function from the keys it holds to values.     *)
(***************************************************************************)
Groups == {"g1"}

DataNames ==
    { <<"A">>, <<"A", "|", "1">>, <<"A", "|", "2">>,
      <<"A", "|", "1", "|", "x">> }

Values == 1..MaxValue

Datasets == UNION {[K -> Values] : K \in SUBSET (Groups \X DataNames)}

\* iamdf.variable
DataVariables(iamdf) == VarList({k[2] : k \in DOMAIN iamdf})

\* iamdf.filter(variable=names)
FilterVariable(iamdf, names) ==
    [k \in {q \in DOMAIN iamdf : q[2] \in names} |-> iamdf[k]]

(***************************************************************************)
(* Variable codes of a DataStructureDefinition.  The `components`          *)
(* attribute is None, a list of names, or several named lists; it is       *)
(* encoded as a record with the kind and the content for that kind.        *)
(***************************************************************************)
NoComponents == [kind |-> "none", names |-> << >>, dicts |-> << >>]

ComponentList(names) == [kind |-> "list", names |-> names, dicts |-> << >>]

ComponentDicts(dicts) == [kind |-> "dicts", names |-> << >>, dicts |-> dicts]

VariableCode(check_aggregate, components) ==
    [check_aggregate |-> check_aggregate, components |-> components]

(***************************************************************************)
(* Tolerances.  rtol and atol are floats; they are counted in units of     *)
(* 1e-8, so that the numpy.isclose defaults are whole numbers.  Values of  *)
(* datapoints are whole numbers.                                           *)
(***************************************************************************)
TolScale == 100000000

\* default rtol of numpy.isclose, 1e-5
DefaultRtol == 1000

\* default atol of numpy.isclose, 1e-8
DefaultAtol == 1

Abs(x) == IF x < 0 THEN -x ELSE x

\* variant taking the relative tolerance of the first argument
IsClose_RelativeToFirst(a, b, rtol, atol) ==
    TolScale * Abs(a - b) <= atol + rtol * Abs(a)

\* numpy.isclose(a, b, rtol, atol): abs(a - b) <= atol + rtol * abs(b)
IsClose(a, b, rtol, atol) ==
    TolScale * Abs(a - b) <= atol + rtol * Abs(b)

\* the tolerance in force: the forwarded keyword, or the default
Effective(tol, default) == IF IsNone(tol) THEN default ELSE tol[1]

(***************************************************************************)
(* pyam.IamDataFrame.check_aggregate and                                   *)
(* DataStructureDefinition.check_aggregate, as called by                   *)
(* check_var_aggregates.                                                   *)
(***************************************************************************)
RECURSIVE SumValues(_, _, _)
SumValues(df, g, names) ==
    IF names = {} THEN 0
    ELSE LET n == CHOOSE x \in names : TRUE
         IN  df[<<g, n>>] + SumValues(df, g, names \ {n})

\* the variables of df one level below `variable`
VariableComponents(df, variable) ==
    SelectSeq(DataVariables(df), LAMBDA n :
        /\ StartsWith(n, variable \o <<Sep>>)
        /\ Count(n, Sep) = Count(variable, Sep) + 1)

\* df.check_aggregate(variable, components, rtol=, atol=): None, or the
\* rows where the variable and the sum of the components do not match;
\* a side without datapoint in a group is NaN (None) and never matches
PyamCheckAggregate(df, variable, components, rtol, atol) ==
    LET comps == IF Len(components) = 0
                 THEN VariableComponents(df, variable) ELSE components
        present(g) == {c \in SeqToSet(comps) : <<g, c>> \in DOMAIN df}
        df_components(g) ==
            IF present(g) = {} THEN None
            ELSE Some(SumValues(df, g, present(g)))
        df_var(g) ==
            IF <<g, variable>> \in DOMAIN df
            THEN Some(df[<<g, variable>>]) ELSE None
        index == {g \in Groups :
                     ~IsNone(df_var(g)) \/ ~IsNone(df_components(g))}
        rows == {g \in index :
                    \/ IsNone(df_var(g))
                    \/ IsNone(df_components(g))
                    \/ ~IsClose(df_var(g)[1], df_components(g)[1],
                                Effective(rtol, DefaultRtol),
                                Effective(atol, DefaultAtol))}
    IN  IF Len(comps) = 0 \/ rows = {} THEN None
        ELSE Some({[group |-> g, variable |-> df_var(g),
                    components |-> df_components(g)] : g \in rows})

\* error.dropna() with the name of the checked variable (and of the
\* hierarchy, for named component lists) put in the index
DropNa(error, code, hierarchy) ==
    IF IsNone(error) THEN {}
    ELSE {[name |-> code, hierarchy |-> hierarchy, group |-> r.group,
           variable |-> r.variable[1], components |-> r.components[1]] :
          r \in {q \in error[1] :
                    ~IsNone(q.variable) /\ ~IsNone(q.components)}}

\* the rows dsd.check_aggregate collects for one variable of df
CheckAggregateOfCode(dsd, df, code, rtol, atol) ==
    LET attr == dsd[code]
    IN  IF ~attr.check_aggregate THEN {}
        ELSE IF attr.components.kind = "dicts"
        THEN UNION {DropNa(PyamCheckAggregate(
                               df, code, attr.components.dicts[i].names,
                               rtol, atol),
                           code, attr.components.dicts[i].key) :
                    i \in 1..Len(attr.components.dicts)}
        ELSE DropNa(PyamCheckAggregate(df, code, attr.components.names,
                                       rtol, atol),
                    code, "")

\* dsd.check_aggregate(df, **check_kwargs): None or the failed rows
DsdCheckAggregate(dsd, df, rtol, atol) ==
    LET error == UNION {CheckAggregateOfCode(dsd, df, code, rtol, atol) :
                        code \in SeqToSet(DataVariables(df))}
    IN  IF error = {} THEN None ELSE Some(error)

(***************************************************************************)
(* aggregation.check_var_aggregates                                        *)
(***************************************************************************)
\* unknown_vars: the dataset variables not in dsd.variable
UnknownVars(variable, dsd) ==
    SelectSeq(variable, LAMBDA v : v \notin DOMAIN dsd)

\* the keys of common_vars: the dataset variables in dsd.variable
CommonVars(variable, dsd) ==
    SelectSeq(variable, LAMBDA v : v \in DOMAIN dsd)

\* variant that keeps every common variable
VarsToCheck_AllCommon(variable, dsd) == CommonVars(variable, dsd)

\* the keys of vars_to_check: the common variables with check_aggregate
VarsToCheck(variable, dsd) ==
    SelectSeq(CommonVars(variable, dsd), LAMBDA v : dsd[v].check_aggregate)

\* variant that infers the components on all sublevels
ComponentMap_AllSublevels(variable, dsd) ==
    [v \in SeqToSet(VarsToCheck(variable, dsd)) |->
        IF dsd[v].components.kind = "none"
        THEN ComponentList(get_component_vars(v, variable, None))
        ELSE dsd[v].components]

\* component_map: the declared components, or the direct components found
\* in the dataset where none are declared
ComponentMap(variable, dsd) ==
    [v \in SeqToSet(VarsToCheck(variable, dsd)) |->
        IF dsd[v].components.kind = "none"
        THEN ComponentList(get_component_vars(v, variable, Some(1)))
        ELSE dsd[v].components]

\* variant that lists every common variable
UncheckedVars_AllCommon(variable, dsd) == CommonVars(variable, dsd)

\* unchecked_vars: the common variables that are not checked
UncheckedVars(variable, dsd) ==
    SelectSeq(CommonVars(variable, dsd),
              LAMBDA v : v \notin SeqToSet(VarsToCheck(variable, dsd)))

\* variant in which the filter works in place
DatasetAfterFilter_InPlace(iamdf, selected) == FilterVariable(iamdf, selected)

\* the caller's dataset after iamdf.filter(variable=...): filter returns a
\* new dataset and leaves the one it is called on as it was
DatasetAfterFilter(iamdf, selected) == iamdf

check_var_aggregates(iamdf, dsd, atol, rtol) ==
    LET variable == DataVariables(iamdf)
        vars_to_check == VarsToCheck(variable, dsd)
        errors ==
            DsdCheckAggregate(
                dsd, FilterVariable(iamdf, SeqToSet(vars_to_check)),
                rtol, atol)
    IN  [failed_checks |-> errors,
         aggregation_map |-> ComponentMap(variable, dsd),
         not_checked |-> UncheckedVars(variable, dsd),
         unkonwn |-> UnknownVars(variable, dsd),
         rtol |-> rtol,
         atol |-> atol]

(***************************************************************************)
(* aggregation.check_var_aggregates_manual                                 *)
(*                                                                         *)
(* **kwargs is a dict: the keywords in the order they were passed, each    *)
(* with its value.  Keywords are Python strings, modelled like names.      *)
(***************************************************************************)
RtolKey == <<"r", "t", "o", "l">>

AtolKey == <<"a", "t", "o", "l">>

\* str.join: the strings of a list with `sep` between them
RECURSIVE JoinWith(_, _)
JoinWith(strs, sep) ==
    IF Len(strs) = 0 THEN << >>
    ELSE IF Len(strs) = 1 THEN strs[1]
    ELSE strs[1] \o sep \o JoinWith(Tail(strs), sep)

\* the keys of kwargs, in passing order
KwargKeys(kwargs) == [i \in 1..Len(kwargs) |-> kwargs[i].key]

\* kwargs.get(key)
KwargValue(kwargs, key) ==
    IF \E i \in 1..Len(kwargs) : kwargs[i].key = key
    THEN Some(kwargs[CHOOSE i \in 1..Len(kwargs) : kwargs[i].key = key].value)
    ELSE None

\* variant that reports the first offending keyword only
invalid_kwarg_keys_FirstOnly(kwargs) ==
    LET invalid == SelectSeq(KwargKeys(kwargs),
                             LAMBDA k : k \notin {RtolKey, AtolKey})
    IN  IF Len(invalid) = 0 THEN invalid ELSE <<invalid[1]>>

\* invalid_kwarg_keys
invalid_kwarg_keys(kwargs) ==
    SelectSeq(KwargKeys(kwargs), LAMBDA k : k \notin {RtolKey, AtolKey})

\* the TypeError raised for invalid keywords; its message is the
\* concatenation of head, plural, middle, keys and tail
InvalidKeywordError(invalid) ==
    [kind |-> "raised", error |-> "TypeError",
     message |->
         [head |-> "Invalid keyword argument",
          plural |-> IF Len(invalid) > 1 THEN "s" ELSE "",
          middle |-> " for check_var_aggregates: ",
          keys |-> JoinWith(invalid, <<",", " ">>),
          tail |-> ". The only valid keyword arguments beyond the ones in the function signature are \"rtol\" and \"atol\"."]]

\* itertools.chain.from_iterable of a list of lists
RECURSIVE ChainFromIterable(_)
ChainFromIterable(lists) ==
    IF Len(lists) = 0 THEN << >>
    ELSE Head(lists) \o ChainFromIterable(Tail(lists))

\* list(dict.fromkeys(list)): first occurrences, in order
RECURSIVE DictFromKeys(_)
DictFromKeys(list) ==
    IF Len(list) = 0 THEN << >>
    ELSE LET front == DictFromKeys(SubSeq(list, 1, Len(list) - 1))
             last == list[Len(list)]
         IN  IF last \in SeqToSet(front) THEN front ELSE Append(front, last)

\* the variables checked when none are given: those without direct parent
\* in the dataset
DefaultVariables(idf_vars) ==
    SelectSeq(idf_vars, LAMBDA v :
        IsNone(get_aggregate_var(v, Some(idf_vars), FALSE)))

\* a Python list as an object: the list the caller passed, or one the
\* function made; an in-place operation changes the object it is applied to
CallerList(items) == [owner |-> "caller", items |-> items]

\* variant in which vars_to_check is the caller's list itself
PyList_SameObject(list) == list

\* list(obj): a new list with the same items
PyList(list) == [owner |-> "local", items |-> list.items]

\* list += items
ExtendInPlace(list, items) == [list EXCEPT !.items = @ \o items]

\* variant that adds no sublevel variables
SublevelVars_NoSublevels(idf_vars, variables, num_sublevels) == << >>

\* the descendants added to vars_to_check by `+=`
SublevelVars(idf_vars, variables, num_sublevels) ==
    IF num_sublevels # Some(0)
    THEN ChainFromIterable(
             [i \in 1..Len(variables) |->
                 get_component_vars(variables[i], idf_vars, num_sublevels)])
    ELSE << >>

\* what the `variables` argument holds after the call: vars_to_check is
\* list(variables) and is extended in place
VariablesAfterCall(iamdf, variables, num_sublevels, kwargs) ==
    IF IsNone(variables) \/ Len(invalid_kwarg_keys(kwargs)) > 0
    THEN variables
    ELSE LET passed == CallerList(variables[1])
             vars_to_check ==
                 ExtendInPlace(PyList(passed),
                               SublevelVars(DataVariables(iamdf), variables[1],
                                            num_sublevels))
         IN  Some(IF vars_to_check.owner = "caller"
                  THEN vars_to_check.items ELSE passed.items)

\* vars_to_check
ManualVarsToCheck(idf_vars, variables, num_sublevels) ==
    DictFromKeys(variables \o SublevelVars(idf_vars, variables, num_sublevels))

\* require_complete is accepted and not used
check_var_aggregates_manual(iamdf, variables, num_sublevels, require_complete, kwargs) ==
    IF Len(invalid_kwarg_keys(kwargs)) > 0
    THEN InvalidKeywordError(invalid_kwarg_keys(kwargs))
    ELSE
    LET idf_vars == DataVariables(iamdf)
        given == IF IsNone(variables) THEN DefaultVariables(idf_vars)
                 ELSE variables[1]
        vars_to_check == ManualVarsToCheck(idf_vars, given, num_sublevels)
        subvars(v) == get_component_vars(v, idf_vars, Some(1))
        with_subvars == SelectSeq(vars_to_check, LAMBDA v : Len(subvars(v)) > 0)
        failed(v) ==
            PyamCheckAggregate(iamdf, v, << >>,
                               KwargValue(kwargs, RtolKey),
                               KwargValue(kwargs, AtolKey))
        failed_checks_df_list ==
            SelectSeq([i \in 1..Len(with_subvars) |->
                          [name |-> with_subvars[i],
                           rows |-> failed(with_subvars[i])]],
                      LAMBDA f : ~IsNone(f.rows))
    IN  [kind |-> "returned",
         failed_checks |->
             IF Len(failed_checks_df_list) = 0 THEN None
             ELSE Some(UNION {
                      {[name |-> failed_checks_df_list[i].name,
                        group |-> r.group, variable |-> r.variable,
                        components |-> r.components] :
                          r \in failed_checks_df_list[i].rows[1]} :
                      i \in 1..Len(failed_checks_df_list)}),
         aggregation_map |->
             [v \in SeqToSet(with_subvars) |-> subvars(v)]]

(***************************************************************************)
(* aggregation.check_region_aggregates                                     *)
(*                                                                         *)
(* Model, region and variable names are plain strings here.  The dataset   *)
(* is given by the (model, region) pairs that have datapoints and by its   *)
(* variables.  A region mapping (nomenclature RegionAggregationMapping)    *)
(* has the names of its native regions and its common regions (None or a   *)
(* list), each with a name and the list of its constituent regions.        *)
(***************************************************************************)
ModelUniverse == <<"M", "Z">>

RegionUniverse == <<"R1", "R2", "World", "X">>

RegionVarUniverse == <<"S", "U", "V">>

\* iamdf.model
DataModels(iamdf) ==
    SelectSeq(ModelUniverse, LAMBDA m : \E k \in iamdf.rows : k[1] = m)

\* iamdf.filter(model=m).region
DataRegions(iamdf, m) ==
    SelectSeq(RegionUniverse, LAMBDA r : <<m, r>> \in iamdf.rows)

\* iamdf.variable
DataRegionVars(iamdf) ==
    SelectSeq(RegionVarUniverse, LAMBDA v : v \in iamdf.variable)

\* _empty_list_if_none
empty_list_if_none(obj) == IF IsNone(obj) THEN << >> ELSE obj[1]

\* an element of a Python list that is a str, and one that is itself a list
StrItem(name) == [type |-> "str", items |-> <<name>>]

ListItem(list) == [type |-> "list", items |-> list]

\* the exception raised by a call
Raised(error) == [kind |-> "raised", error |-> error]

\* unknown_regions before the models without unknown regions are removed
UnknownRegionsOf(iamdf, processor, m) ==
    SelectSeq(DataRegions(iamdf, m), LAMBDA r :
        r \notin SeqToSet(processor.mappings[m].model_native_region_names))

\* variant that resolves overlaps: a region stays a constituent of the
\* first common region that lists it only
AggregationMapOf_FirstListing(processor, m) ==
    LET common == empty_list_if_none(processor.mappings[m].common_regions)
    IN  [n \in {common[i].name : i \in 1..Len(common)} |->
            LET i == CHOOSE j \in 1..Len(common) : common[j].name = n
            IN  SelectSeq(common[i].constituent_regions, LAMBDA r :
                    \A k \in 1..(i - 1) :
                        r \notin SeqToSet(common[k].constituent_regions))]

\* aggregation_map[m]: common region name -> constituent regions
AggregationMapOf(processor, m) ==
    LET common == empty_list_if_none(processor.mappings[m].common_regions)
    IN  [n \in {common[i].name : i \in 1..Len(common)} |->
            LET i == CHOOSE j \in 1..Len(common) :
                         /\ common[j].name = n
                         /\ \A k \in (j + 1)..Len(common) : common[k].name # n
            IN  common[i].constituent_regions]

\* aggregate_and_constituent_regions[m]: the keys of the map followed by
\* list(itertools.chain(values)), whose elements are the values themselves
AggregateAndConstituentRegions(processor, m) ==
    LET map == AggregationMapOf(processor, m)
    IN  {StrItem(n) : n \in DOMAIN map} \cup {ListItem(map[n]) : n \in DOMAIN map}

\* variant that rejects only when both codelists differ
CodelistsDiffer_Both(dsd, processor) ==
    /\ dsd.variable # processor.variable_codelist
    /\ dsd.region # processor.region_codelist

\* the condition under which the codelists of dsd and processor are rejected
CodelistsDiffer(dsd, processor) ==
    \/ dsd.variable # processor.variable_codelist
    \/ dsd.region # processor.region_codelist

\* `library` is the outcome of processor.check_region_aggregation, a call
\* into the nomenclature package: it returns, raises
\* ValueError('No objects to concatenate'), or raises something else
check_region_aggregates(iamdf, dsd, processor, rtol_difference, library) ==
    IF CodelistsDiffer(dsd, processor)
    THEN Raised("ValueError: codelists do not match")
    ELSE
    LET models_to_check ==
            SelectSeq(DataModels(iamdf),
                      LAMBDA m : m \in DOMAIN processor.mappings)
        known == SeqToSet(models_to_check)
        unknown_models ==
            SelectSeq(DataModels(iamdf), LAMBDA m : m \notin known)
        \* only the models with unknown regions are kept as keys
        unknown_regions ==
            [m \in {k \in known :
                       Len(UnknownRegionsOf(iamdf, processor, k)) > 0} |->
                UnknownRegionsOf(iamdf, processor, m)]
        aggregation_map == [m \in known |-> AggregationMapOf(processor, m)]
        common_aggregated_regions ==
            [m \in known |->
                SelectSeq(DataRegions(iamdf, m),
                          LAMBDA r : r \in DOMAIN aggregation_map[m])]
        regions_not_checked ==
            [m \in known |->
                SelectSeq(DataRegions(iamdf, m), LAMBDA r :
                    /\ r \notin SeqToSet(unknown_regions[m])
                    /\ StrItem(r) \notin
                           AggregateAndConstituentRegions(processor, m))]
        common_vars ==
            SelectSeq(DataRegionVars(iamdf), LAMBDA v : v \in DOMAIN dsd.variable)
        unknown_vars ==
            SelectSeq(DataRegionVars(iamdf),
                      LAMBDA v : v \notin SeqToSet(common_vars))
        vars_not_checked ==
            SelectSeq(common_vars,
                      LAMBDA v : dsd.variable[v].skip_region_aggregation)
    IN  \* unknown_regions[m] is looked up for every model to check
        IF \E m \in known : m \notin DOMAIN unknown_regions
        THEN Raised("KeyError")
        ELSE IF library.outcome = "raises"
        THEN Raised(library.error)
        ELSE [kind |-> "result",
              failed_checks |->
                  IF library.outcome = "returns"
                  THEN library.failed_checks ELSE None,
              aggregation_map |-> aggregation_map,
              common_aggregated_regions |-> common_aggregated_regions,
              regions_not_checked |-> regions_not_checked,
              vars_not_checked |-> vars_not_checked,
              unkonwn_regions |-> unknown_regions,
              unkonwn_vars |-> unknown_vars,
              unknown_models |-> unknown_models,
              rtol |-> rtol_difference,
              processed_data |->
                  IF library.outcome = "returns"
                  THEN library.processed_data
                  ELSE [rows |-> {}, variable |-> {}]]

(***************************************************************************)
(* The region processing of the nomenclature package,                      *)
(* processor.check_region_aggregation(df, rtol_difference), on data with   *)
(* values: for every model with a mapping, every common region and every   *)
(* variable of the codelist without skip-region-aggregation, the values of *)
(* the constituent regions found in the data are summed, and where the     *)
(* data also reports a value for the common region the two are compared    *)
(* with numpy.isclose(original, aggregated, rtol=rtol_difference); the     *)
(* rows that are not close are returned with their "difference (%)",       *)
(* 100 * abs((original - aggregated) / original).                          *)
(***************************************************************************)
\* marks a (model, region, variable) without a row; values are positive
NoRow == 0

\* 0.01 in the unit of the tolerances
PercentUnit == TolScale \div 100

\* default rtol_difference of check_region_aggregation, 0.01, in hundredths
DefaultRtolDifference == 1

\* variant taking the relative tolerance of the first argument
IsCloseByPercent_RelativeToFirst(a, b, rtol_percent, atol) ==
    100 * Abs(a - b) <= rtol_percent * Abs(a) + (atol \div PercentUnit)

\* numpy.isclose(a, b, rtol, atol) for whole numbers a and b and rtol given
\* in hundredths: TolScale * abs(a - b) <= atol + rtol_percent *
\* PercentUnit * abs(b), divided through by PercentUnit
IsCloseByPercent(a, b, rtol_percent, atol) ==
    100 * Abs(a - b) <= rtol_percent * Abs(b) + (atol \div PercentUnit)

\* the regions of a list that have a row for model m and variable v
PresentRegions(iamdf, m, regions, v) ==
    SelectSeq(regions, LAMBDA r : iamdf.data[<<m, r, v>>] # NoRow)

\* the sum of the values of model m and variable v over a list of regions
RECURSIVE SumRegions(_, _, _, _)
SumRegions(iamdf, m, regions, v) ==
    IF regions = << >> THEN 0
    ELSE iamdf.data[<<m, Head(regions), v>>]
             + SumRegions(iamdf, m, Tail(regions), v)

\* a row of the table of differences
DifferenceRow(m, r, v, original, aggregated) ==
    [model |-> m, region |-> r, variable |-> v,
     original |-> original, aggregated |-> aggregated,
     difference |-> [num |-> 100 * Abs(original - aggregated),
                     den |-> Abs(original)]]

\* the rows of one model that fail the comparison
ModelDifferences(iamdf, processor, m, rtol_percent) ==
    LET common == empty_list_if_none(processor.mappings[m].common_regions)
        checked == {v \in DOMAIN processor.variable_codelist :
                       ~processor.variable_codelist[v].skip_region_aggregation}
        compared == {<<i, v>> \in (1..Len(common)) \X checked :
                        /\ iamdf.data[<<m, common[i].name, v>>] # NoRow
                        /\ PresentRegions(iamdf, m,
                               common[i].constituent_regions, v) # << >>}
        Original(c) == iamdf.data[<<m, common[c[1]].name, c[2]>>]
        Aggregated(c) ==
            SumRegions(iamdf, m,
                       PresentRegions(iamdf, m,
                           common[c[1]].constituent_regions, c[2]),
                       c[2])
    IN  {DifferenceRow(m, common[c[1]].name, c[2], Original(c), Aggregated(c)) :
            c \in {d \in compared :
                      ~IsCloseByPercent(Original(d), Aggregated(d),
                                        rtol_percent, DefaultAtol)}}

\* what check_region_aggregation returns for data whose regions are all
\* declared by the mapping of their model: the data of the declared regions
\* with the common regions added, and the table of differences
check_region_aggregation(iamdf, processor, rtol_difference) ==
    LET known == {m \in SeqToSet(DataModels(iamdf)) :
                     m \in DOMAIN processor.mappings}
        rtol_percent == Effective(rtol_difference, DefaultRtolDifference)
        aggregated_rows ==
            {<<m, n>> \in known \X SeqToSet(RegionUniverse) :
                /\ n \in DOMAIN AggregationMapOf(processor, m)
                /\ \E r \in SeqToSet(AggregationMapOf(processor, m)[n]) :
                       <<m, r>> \in iamdf.rows}
    IN  [outcome |-> "returns",
         processed_data |-> [rows |-> iamdf.rows \cup aggregated_rows,
                             variable |-> iamdf.variable],
         failed_checks |->
             Some(UNION {ModelDifferences(iamdf, processor, m, rtol_percent) :
                            m \in known}),
         error |-> ""]

(***************************************************************************)
(* validation.get_invalid_names and validation.get_invalid_model_regions.  *)
(* A dict with region names as keys is a function; its items are visited   *)
(* in the order the keys were inserted, which is the order of iamdf.region. *)
(***************************************************************************)
\* iamdf.region
AllDataRegions(iamdf) ==
    SelectSeq(RegionUniverse, LAMBDA r : \E k \in iamdf.rows : k[2] = r)

\* iamdf.filter(region=regions)
FilterRegions(iamdf, regions) ==
    [iamdf EXCEPT !.rows = {k \in @ : k[2] \in regions}]

\* get_invalid_names(iamdf, dsd)['region']: the names of the data that
\* dsd.region.validate_items does not find in the codelist
get_invalid_names(iamdf, dsd) ==
    SelectSeq(AllDataRegions(iamdf), LAMBDA r : r \notin dsd.region)

\* model_native_regions
ModelNativeRegions(region_processor) ==
    [m \in DOMAIN region_processor.mappings |->
        region_processor.mappings[m].model_native_region_names]

\* the keys of processor.mappings, in order
MappedModels(region_processor) ==
    SelectSeq(ModelUniverse, LAMBDA m : m \in DOMAIN region_processor.mappings)

\* _valid_models: the models of the processor with _region as native region
ValidModels(iamdf, region_processor, region) ==
    SelectSeq(MappedModels(region_processor), LAMBDA m :
        region \in SeqToSet(ModelNativeRegions(region_processor)[m]))

\* _invalid_models: the models found with _region that are not valid
InvalidModels(iamdf, region_processor, region) ==
    SelectSeq(DataModels(FilterRegions(iamdf, {region})), LAMBDA m :
        m \notin SeqToSet(ValidModels(iamdf, region_processor, region)))

get_invalid_model_regions(iamdf, dsd, region_processor, return_valid_native_combos) ==
    LET flag == IF IsNone(return_valid_native_combos) THEN FALSE
                ELSE return_valid_native_combos[1]
        invalid_regions_common == get_invalid_names(iamdf, dsd)
        check_native_iamdf ==
            FilterRegions(iamdf, SeqToSet(invalid_regions_common))
        regions == SeqToSet(AllDataRegions(check_native_iamdf))
        invalid_combos ==
            [r \in {q \in regions :
                       Len(InvalidModels(check_native_iamdf, region_processor, q)) > 0}
                |-> InvalidModels(check_native_iamdf, region_processor, r)]
        valid_combos ==
            [r \in {q \in regions :
                       Len(ValidModels(check_native_iamdf, region_processor, q)) > 0}
                |-> ValidModels(check_native_iamdf, region_processor, r)]
    IN  IF \E r \in regions :
               Len(DataModels(FilterRegions(check_native_iamdf, {r}))) = 0
        THEN Raised("RuntimeError")
        ELSE IF flag
        THEN [kind |-> "tuple", invalid_combos |-> invalid_combos,
              valid_combos |-> valid_combos]
        ELSE [kind |-> "dict", invalid_combos |-> invalid_combos]

(***************************************************************************)
(* mapping.map_regions.  region_processor.apply is the region processing   *)
(* of the nomenclature package: `library` says whether it returns or       *)
(* raises for the data it is given, and what it returns is kept as the     *)
(* data it was applied to.                                                 *)
(***************************************************************************)
\* iamdf.filter(region=region, model=models)
FilterRegionModels(iamdf, region, models) ==
    [iamdf EXCEPT !.rows = {k \in @ : k[2] = region /\ k[1] \in SeqToSet(models)}]

\* iamdf.filter(region=region, model=models, keep=False)
FilterOutRegionModels(iamdf, region, models) ==
    [iamdf EXCEPT !.rows = {k \in @ : ~(k[2] = region /\ k[1] \in SeqToSet(models))}]

\* the keys of a dict of regions, in insertion order
DictKeys(dict) == SelectSeq(RegionUniverse, LAMBDA r : r \in DOMAIN dict)

\* the loop over invalid_regions_models.items(), from the i-th item on,
\* with its break on an empty dataset
RECURSIVE FilterLoop(_, _, _)
FilterLoop(_filter_df, invalid_regions_models, i) ==
    LET keys == DictKeys(invalid_regions_models)
    IN  IF i > Len(keys) THEN _filter_df
        ELSE LET filtered ==
                     FilterOutRegionModels(_filter_df, keys[i],
                                           invalid_regions_models[keys[i]])
             IN  IF Cardinality(filtered.rows) = 0 THEN filtered
                 ELSE FilterLoop(filtered, invalid_regions_models, i + 1)

\* pyam.concat(dfs): the rows of all datasets; an empty list is an error
PyamConcat(dfs) ==
    IF Len(dfs) < 1 THEN Raised("ValueError: No objects to concatenate")
    ELSE [kind |-> "data", rows |-> UNION {dfs[i].rows : i \in 1..Len(dfs)}]

\* region_processor.apply(df)
RegionProcessorApply(df, library) ==
    IF library = "raises" THEN Raised("ValueError")
    ELSE [kind |-> "processed", applied_to |-> df.rows]

map_regions(iamdf, dsd, region_processor, return_excluded, library) ==
    LET flag == IF IsNone(return_excluded) THEN FALSE ELSE return_excluded[1]
        invalid ==
            get_invalid_model_regions(iamdf, dsd, region_processor, Some(FALSE))
        invalid_regions_models == invalid.invalid_combos
        _filter_df == FilterLoop(iamdf, invalid_regions_models, 1)
        processed_iamdf == RegionProcessorApply(_filter_df, library)
        keys == DictKeys(invalid_regions_models)
        invalid_iamdfs ==
            [i \in 1..Len(keys) |->
                FilterRegionModels(iamdf, keys[i], invalid_regions_models[keys[i]])]
        invalid_iamdf == PyamConcat(invalid_iamdfs)
    IN  IF invalid.kind = "raised" THEN invalid
        ELSE IF processed_iamdf.kind = "raised" THEN processed_iamdf
        ELSE IF ~flag
        THEN [kind |-> "single", processed |-> processed_iamdf]
        ELSE IF invalid_iamdf.kind = "raised" THEN invalid_iamdf
        ELSE [kind |-> "pair", processed |-> processed_iamdf,
              excluded |-> invalid_iamdf.rows]

(***************************************************************************)
(* multi_load.merge_region_processors.  A RegionProcessor is given by its  *)
(* mappings, a dict from model names to region mappings; the codelists of  *)
(* the merged processor are kept by where they are taken from.             *)
(***************************************************************************)
\* dict.update(other)
DictUpdate(dict, other) ==
    [k \in DOMAIN dict \cup DOMAIN other |->
        IF k \in DOMAIN other THEN other[k] ELSE dict[k]]

\* the loop over region_processors, from the i-th on
RECURSIVE MergeLoop(_, _, _)
MergeLoop(mappings, region_processors, i) ==
    IF i > Len(region_processors) THEN mappings
    ELSE MergeLoop(DictUpdate(mappings, region_processors[i].mappings),
                   region_processors, i + 1)

merge_region_processors(region_processors, dsds, merged_dsd) ==
    IF IsNone(merged_dsd) /\ IsNone(dsds)
    THEN Raised("ValueError")
    ELSE [kind |-> "processor",
          mappings |-> MergeLoop([m \in {} |-> None], region_processors, 1),
          codelists |-> IF IsNone(merged_dsd)
                        THEN [merged_from |-> dsds[1]]
                        ELSE [merged_from |-> merged_dsd[1]]]

(***************************************************************************)
(* The cached definitions: get_dsd and get_region_processor of the package *)
(* (__init__.py) and of default_definitions.py.  A loaded object is        *)
(* identified by the number of the load that produced it.                  *)
(***************************************************************************)
Package == "iamcompact_nomenclature"

DefaultDefinitions == "iamcompact_nomenclature.default_definitions"

Modules == {Package, DefaultDefinitions}

\* the globals after import: nothing is loaded
NothingLoaded ==
    /\ _dsd = [m \in Modules |-> None]
    /\ _region_processor = [m \in Modules |-> None]
    /\ loads = 0
    /\ history = << >>

\* variant that loads on every call
NeedsLoad_EveryCall(cached, force_reload) == TRUE

\* `<cache> is None or force_reload`
NeedsLoad(cached, force_reload) == IsNone(cached) \/ force_reload

\* variant in which no module declares the global
AssignsRegionProcessorGlobal_Nowhere(module) == FALSE

\* whether `_region_processor = None` in get_dsd assigns the module global:
\* default_definitions declares `global _region_processor`, the package
\* does not, so there the assignment makes a local variable
AssignsRegionProcessorGlobal(module) == module = DefaultDefinitions

\* the object _load_definitions returns on load number n
LoadedDefinitions(n, dimensions) == [id |-> n, dimensions |-> dimensions]

\* the object _load_region_processor returns on load number n, built from
\* the definitions get_dsd() gave it
LoadedRegionProcessor(n, dsd) == [id |-> n, dsd |-> dsd]

\* a call as recorded in history
CallRecord(module, function, force_reload, loaded, returned) ==
    [module |-> module, function |-> function, force_reload |-> force_reload,
     loaded |-> loaded, returned |-> returned]

(***************************************************************************)
(* Inputs of the name helpers.                                             *)
(***************************************************************************)
SublevelArgs == {None} \cup {Some(n) : n \in (-1)..MaxSublevels}

DataFrameArgs == {None} \cup {Some(VarList(S)) : S \in SUBSET Names}

(***************************************************************************)
(* Inputs of check_var_aggregates.                                         *)
(***************************************************************************)
\* the codes a codelist may hold for a name: "A" may declare explicit
\* components, as one list or as two named lists
CodesFor(name) ==
    {VariableCode(FALSE, NoComponents), VariableCode(TRUE, NoComponents)}
    \cup
    (IF name = <<"A">>
     THEN {VariableCode(TRUE, ComponentList(<< <<"A", "|", "1">> >>)),
           VariableCode(TRUE, ComponentDicts(
               << [key |-> "h1", names |-> << <<"A", "|", "1">> >>],
                  [key |-> "h2", names |-> << <<"A", "|", "2">> >>] >>))}
     ELSE {})

\* dsd.variable: the codes of the names the codelist defines
Codelists ==
    UNION {{dsd \in [K -> UNION {CodesFor(n) : n \in K}] :
               \A n \in K : dsd[n] \in CodesFor(n)} :
           K \in SUBSET DataNames}

\* rtol: not given, 0, or 0.5
RtolArgs == {None, Some(0), Some(TolScale \div 2)}

\* atol: not given, or 1
AtolArgs == {None, Some(TolScale)}

(***************************************************************************)
(* Inputs of check_var_aggregates_manual.                                  *)
(***************************************************************************)
\* keywords passed beyond the signature: rtol, atol and two others
KeywordUniverse == {RtolKey, AtolKey, <<"t", "o", "l">>, <<"x">>}

\* the value passed with a keyword: rtol=0.5, atol=1, anything else 0
KeywordValue(key) ==
    IF key = RtolKey THEN TolScale \div 2
    ELSE IF key = AtolKey THEN TolScale ELSE 0

\* the lists of at most n distinct keywords
KeywordLists(n) ==
    {l \in UNION {[1..k -> KeywordUniverse] : k \in 0..n} :
        \A i, j \in 1..Len(l) : i # j => l[i] # l[j]}

KwargsArgs ==
    {[i \in 1..Len(l) |-> [key |-> l[i], value |-> KeywordValue(l[i])]] :
        l \in KeywordLists(MaxKwargs)}

\* variables: not given, or a list of names
VariablesArgs ==
    {None, Some(<< <<"A">> >>), Some(<< <<"A", "|", "1">>, <<"A">> >>)}

ManualDatasets == {d \in Datasets : \A k \in DOMAIN d : d[k] <= 2}

CheckVarAggregatesManualArgs ==
    [iamdf : ManualDatasets, variables : VariablesArgs,
     num_sublevels : {None, Some(0), Some(1)},
     require_complete : BOOLEAN, kwargs : KwargsArgs]

(***************************************************************************)
(* Inputs of check_region_aggregates.                                      *)
(***************************************************************************)
\* the (model, region) pairs a dataset may hold
RowUniverse ==
    ({"M"} \X {"R1", "R2", "World", "X"}) \cup ({"Z"} \X {"R1", "X"})

\* datasets: no rows and no variables, or some of both
RegionDatasets ==
    {d \in [rows : SUBSET RowUniverse, variable : SUBSET {"S", "U", "V"}] :
        (d.rows = {}) = (d.variable = {})}

\* variable codelists: "S" has skip-region-aggregation set
VariableCodelists ==
    { [v \in {"S", "V"} |-> [skip_region_aggregation |-> v = "S"]],
      [v \in {"V"} |-> [skip_region_aggregation |-> FALSE]] }

\* region codelists
RegionCodelists == { {"R1", "R2", "World"}, {"R1", "R2", "World", "X"} }

WorldOf(constituents) ==
    [name |-> "World", constituent_regions |-> constituents]

\* a second common region, named "X"
XOf(constituents) ==
    [name |-> "X", constituent_regions |-> constituents]

\* the mappings a model may have; in the last one "R1" is a constituent of
\* two common regions
RegionMappings ==
    { [model_native_region_names |-> <<"R1", "R2">>,
       common_regions |-> Some(<<WorldOf(<<"R1", "R2">>)>>)],
      [model_native_region_names |-> <<"R1", "R2">>,
       common_regions |-> Some(<<WorldOf(<<"R1", "R2">>), XOf(<<"R1">>)>>)],
      [model_native_region_names |-> <<"R1", "R2">>,
       common_regions |-> None],
      [model_native_region_names |-> <<"R1">>,
       common_regions |-> Some(<<WorldOf(<<"R1">>)>>)] }

\* processor.mappings: no model, "M", or "M" and "Z"
MappingStores ==
    {[m \in {} |-> None]}
    \cup [{"M"} -> RegionMappings]
    \cup {[m \in {"M", "Z"} |-> mapping] : mapping \in RegionMappings}

\* rtol_difference: not given, or 0.05
RtolDifferenceArgs == {None, Some(5)}

\* outcomes of processor.check_region_aggregation(df=iamdf, ...): the
\* processed data and the failed rows, or an exception
LibraryOutcomes ==
    { [outcome |-> "returns",
       processed_data |-> [rows |-> {<<"M", "World">>}, variable |-> {"V"}],
       failed_checks |-> Some({"failed row"}), error |-> ""],
      [outcome |-> "nothing",
       processed_data |-> [rows |-> {}, variable |-> {}],
       failed_checks |-> None,
       error |-> "ValueError: No objects to concatenate"],
      [outcome |-> "raises",
       processed_data |-> [rows |-> {}, variable |-> {}],
       failed_checks |-> None, error |-> "ValueError"] }

CheckRegionAggregatesArgs ==
    {[iamdf |-> d, dsd |-> [variable |-> dv, region |-> dr],
      processor |-> [variable_codelist |-> pv, region_codelist |-> pr,
                     mappings |-> ms],
      rtol_difference |-> rt, library |-> lib] :
        d \in RegionDatasets, dv \in VariableCodelists,
        dr \in {{"R1", "R2", "World"}}, pv \in VariableCodelists,
        pr \in RegionCodelists, ms \in MappingStores,
        rt \in RtolDifferenceArgs, lib \in LibraryOutcomes}

(***************************************************************************)
(* State machine.  The initial states are the pending calls: a function    *)
(* name with arguments drawn from the bounded input sets.  Each function   *)
(* is one atomic action taking the pending call to its outcome.            *)
(***************************************************************************)
\* values a (region, variable) may have in the data of model "M"
ValueChoices ==
    [World_V : {NoRow, 95, 99, 100}, R1_V : {NoRow, 35, 40},
     R2_V : {NoRow, 60, 65}, World_S : {NoRow, 100}, R1_S : {NoRow, 40}]

\* a dataset with values for model "M"
ValueDataset(c) ==
    LET data == [k \in {"M"} \X {"R1", "R2", "World"} \X {"S", "V"} |->
                    CASE k = <<"M", "World", "V">> -> c.World_V
                      [] k = <<"M", "R1", "V">> -> c.R1_V
                      [] k = <<"M", "R2", "V">> -> c.R2_V
                      [] k = <<"M", "World", "S">> -> c.World_S
                      [] k = <<"M", "R1", "S">> -> c.R1_S
                      [] OTHER -> NoRow]
    IN  [rows |-> {<<k[1], k[2]>> : k \in {j \in DOMAIN data : data[j] # NoRow}},
         variable |-> {k[3] : k \in {j \in DOMAIN data : data[j] # NoRow}},
         data |-> data]

\* the mappings of "M" that declare common regions, all of them among the
\* regions of the value datasets
MappingsWithCommonRegion ==
    {mapping \in RegionMappings :
        /\ ~IsNone(mapping.common_regions)
        /\ \A i \in 1..Len(mapping.common_regions[1]) :
               mapping.common_regions[1][i].name \in {"R1", "R2", "World"}}

\* calls of check_region_aggregates on data with values: the codelists
\* match, the regions of the data are declared by the mapping of "M", and
\* `library` is what the region processing does with these arguments
CheckRegionValuesArgs ==
    LET Processor(vc, mapping) ==
            [variable_codelist |-> vc,
             region_codelist |-> {"R1", "R2", "World"},
             mappings |-> [m \in {"M"} |-> mapping]]
        calls ==
            {[iamdf |-> ValueDataset(c),
              dsd |-> [variable |-> vc, region |-> {"R1", "R2", "World"}],
              processor |-> Processor(vc, mapping),
              rtol_difference |-> rt,
              library |-> check_region_aggregation(
                              ValueDataset(c), Processor(vc, mapping), rt)] :
                c \in ValueChoices,
                vc \in {v \in VariableCodelists : "S" \in DOMAIN v},
                mapping \in MappingsWithCommonRegion,
                rt \in RtolDifferenceArgs}
    IN  {call \in calls :
            \A row \in call.iamdf.rows :
                row[2] \in SeqToSet(call.processor.mappings["M"]
                                        .model_native_region_names)
                               \cup {"World"}}

GetAggregateVarArgs ==
    [varname : Names, iamdf : DataFrameArgs, check_all_levels : BOOLEAN]

GetComponentVarsArgs ==
    [varname : Names, iamdf : {VarList(S) : S \in SUBSET Names},
     num_sublevels : SublevelArgs]

CheckVarAggregatesArgs ==
    [iamdf : Datasets, dsd : Codelists, atol : AtolArgs, rtol : RtolArgs]

InitNames ==
    /\ NothingLoaded
    /\ pc = "call"
    /\ ret = << >>
    /\ \/ op = "get_aggregate_var" /\ args \in GetAggregateVarArgs
       \/ op = "get_component_vars" /\ args \in GetComponentVarsArgs

InitVarCheck ==
    /\ NothingLoaded
    /\ pc = "call"
    /\ ret = << >>
    /\ op = "check_var_aggregates"
    /\ args \in CheckVarAggregatesArgs

InitRegionCheck ==
    /\ NothingLoaded
    /\ pc = "call"
    /\ ret = << >>
    /\ op = "check_region_aggregates"
    /\ args \in CheckRegionAggregatesArgs

InitManual ==
    /\ NothingLoaded
    /\ pc = "call"
    /\ ret = << >>
    /\ op = "check_var_aggregates_manual"
    /\ args \in CheckVarAggregatesManualArgs

\* a call of check_region_aggregates on data with values
InitRegionValues ==
    /\ NothingLoaded
    /\ pc = "call"
    /\ ret = << >>
    /\ op = "check_region_aggregates"
    /\ args \in CheckRegionValuesArgs

(***************************************************************************)
(* Inputs of get_invalid_model_regions and map_regions.                    *)
(***************************************************************************)
\* datasets, given by their (model, region) pairs
MappingDatasets == [rows : SUBSET RowUniverse]

\* dsd.region: the common region names
CommonRegionCodelists == { {"World"}, {"R1", "World"}, {"R1", "R2", "World", "X"} }

\* an optional flag: not given, False or True
FlagArgs == {None, Some(FALSE), Some(TRUE)}

GetInvalidModelRegionsArgs ==
    [iamdf : MappingDatasets, dsd : [region : CommonRegionCodelists],
     region_processor : [mappings : MappingStores],
     return_valid_native_combos : FlagArgs]

MapRegionsArgs ==
    [iamdf : MappingDatasets, dsd : [region : CommonRegionCodelists],
     region_processor : [mappings : MappingStores],
     return_excluded : FlagArgs, library : {"returns", "raises"}]

InitMapping ==
    /\ NothingLoaded
    /\ pc = "call"
    /\ ret = << >>
    /\ \/ op = "get_invalid_model_regions" /\ args \in GetInvalidModelRegionsArgs
       \/ op = "map_regions" /\ args \in MapRegionsArgs

(***************************************************************************)
(* Inputs of merge_region_processors.                                      *)
(***************************************************************************)
\* the processors to merge, in order
RegionProcessorLists ==
    UNION {[1..n -> [mappings : MappingStores]] : n \in 0..MaxProcessors}

MergeRegionProcessorsArgs ==
    [region_processors : RegionProcessorLists,
     dsds : {None, Some("dsds")},
     merged_dsd : {None, Some("merged_dsd")}]

InitMerge ==
    /\ NothingLoaded
    /\ pc = "call"
    /\ ret = << >>
    /\ op = "merge_region_processors"
    /\ args \in MergeRegionProcessorsArgs

\* the modules have been imported and no function has been called
InitCache ==
    /\ NothingLoaded
    /\ pc = "done"
    /\ op = "import"
    /\ args = << >>
    /\ ret = << >>

Init ==
    \/ InitCache
    \/ InitMerge
    \/ InitMapping
    \/ InitNames
    \/ InitVarCheck
    \/ InitManual
    \/ InitRegionCheck
    \/ InitRegionValues

CallGetAggregateVar ==
    /\ pc = "call"
    /\ op = "get_aggregate_var"
    /\ ret' = get_aggregate_var(args.varname, args.iamdf,
                                args.check_all_levels)
    /\ pc' = "done"
    /\ UNCHANGED <<op, args>>
    /\ UNCHANGED cache_vars

CallGetComponentVars ==
    /\ pc = "call"
    /\ op = "get_component_vars"
    /\ ret' = get_component_vars(args.varname, args.iamdf,
                                 args.num_sublevels)
    /\ pc' = "done"
    /\ UNCHANGED <<op, args>>
    /\ UNCHANGED cache_vars

\* check_var_aggregates is called, and may be called once more with the
\* same arguments as the first call has left them; the result of the
\* first call is then kept in `history`
CallCheckVarAggregates ==
    /\ op = "check_var_aggregates"
    /\ \/ /\ pc = "call"
          /\ UNCHANGED history
       \/ /\ pc = "done"
          /\ history = << >>
          /\ history' = <<[function |-> op, returned |-> ret]>>
    /\ ret' = check_var_aggregates(args.iamdf, args.dsd, args.atol, args.rtol)
    /\ args' = [args EXCEPT !.iamdf =
                    DatasetAfterFilter(args.iamdf,
                        SeqToSet(VarsToCheck(DataVariables(args.iamdf), args.dsd)))]
    /\ pc' = "done"
    /\ UNCHANGED op
    /\ UNCHANGED <<_dsd, _region_processor, loads>>

CallCheckVarAggregatesManual ==
    /\ pc = "call"
    /\ op = "check_var_aggregates_manual"
    /\ ret' = check_var_aggregates_manual(args.iamdf, args.variables,
                                          args.num_sublevels,
                                          args.require_complete, args.kwargs)
    /\ args' = [args EXCEPT !.variables =
                    VariablesAfterCall(args.iamdf, args.variables,
                                       args.num_sublevels, args.kwargs)]
    /\ pc' = "done"
    /\ UNCHANGED op
    /\ UNCHANGED cache_vars

CallCheckRegionAggregates ==
    /\ pc = "call"
    /\ op = "check_region_aggregates"
    /\ ret' = check_region_aggregates(args.iamdf, args.dsd, args.processor,
                                      args.rtol_difference, args.library)
    /\ pc' = "done"
    /\ UNCHANGED <<op, args>>
    /\ UNCHANGED cache_vars

CallGetInvalidModelRegions ==
    /\ pc = "call"
    /\ op = "get_invalid_model_regions"
    /\ ret' = get_invalid_model_regions(args.iamdf, args.dsd, args.region_processor, args.return_valid_native_combos)
    /\ pc' = "done"
    /\ UNCHANGED <<op, args>>
    /\ UNCHANGED cache_vars

CallMapRegions ==
    /\ pc = "call"
    /\ op = "map_regions"
    /\ ret' = map_regions(args.iamdf, args.dsd, args.region_processor, args.return_excluded, args.library)
    /\ pc' = "done"
    /\ UNCHANGED <<op, args>>
    /\ UNCHANGED cache_vars

CallMergeRegionProcessors ==
    /\ pc = "call"
    /\ op = "merge_region_processors"
    /\ ret' = merge_region_processors(args.region_processors, args.dsds, args.merged_dsd)
    /\ pc' = "done"
    /\ UNCHANGED <<op, args>>
    /\ UNCHANGED cache_vars

\* a run makes one call of a checking function or a sequence of calls of
\* the loading functions: these follow the import or one another
LoadingRun == pc = "done" /\ op \in {"import", "get_dsd", "get_region_processor"}

\* module.get_dsd(force_reload, dimensions)
GetDsd(module, force_reload, dimensions) ==
    LET load == NeedsLoad(_dsd[module], force_reload)
        dsd == IF load THEN LoadedDefinitions(loads + 1, dimensions)
               ELSE _dsd[module][1]
    IN  /\ LoadingRun
        /\ Len(history) < MaxCalls
        /\ _dsd' = [_dsd EXCEPT ![module] = Some(dsd)]
        /\ _region_processor' =
               IF force_reload /\ AssignsRegionProcessorGlobal(module)
               THEN [_region_processor EXCEPT ![module] = None]
               ELSE _region_processor
        /\ loads' = IF load THEN loads + 1 ELSE loads
        /\ history' = Append(history,
                             CallRecord(module, "get_dsd", force_reload,
                                        load, dsd.id))
        /\ op' = "get_dsd"
        /\ args' = [module |-> module, force_reload |-> force_reload,
                    dimensions |-> dimensions]
        /\ ret' = dsd
        /\ pc' = "done"

\* module.get_region_processor(force_reload); the loader calls
\* get_dsd() of the same module, which loads the definitions if there
\* are none
GetRegionProcessor(module, force_reload) ==
    LET load == NeedsLoad(_region_processor[module], force_reload)
        dsd_load == load /\ NeedsLoad(_dsd[module], FALSE)
        dsd == IF dsd_load THEN LoadedDefinitions(loads + 1, None)
               ELSE _dsd[module][1]
        loads_after_dsd == IF dsd_load THEN loads + 1 ELSE loads
        processor ==
            IF load THEN LoadedRegionProcessor(loads_after_dsd + 1, dsd)
            ELSE _region_processor[module][1]
        nested == IF load
                  THEN <<CallRecord(module, "get_dsd", FALSE, dsd_load, dsd.id)>>
                  ELSE << >>
    IN  /\ LoadingRun
        /\ Len(history) < MaxCalls
        /\ _dsd' = IF dsd_load THEN [_dsd EXCEPT ![module] = Some(dsd)]
                   ELSE _dsd
        /\ _region_processor' =
               [_region_processor EXCEPT ![module] = Some(processor)]
        /\ loads' = IF load THEN loads_after_dsd + 1 ELSE loads
        /\ history' = history \o nested \o
                      <<CallRecord(module, "get_region_processor",
                                   force_reload, load, processor.id)>>
        /\ op' = "get_region_processor"
        /\ args' = [module |-> module, force_reload |-> force_reload]
        /\ ret' = processor
        /\ pc' = "done"

\* the dimensions argument of get_dsd: not given, or a custom sequence
DimensionsArgs == {None, Some("custom dimensions")}

CallGetDsd ==
    \E module \in Modules, force_reload \in BOOLEAN,
       dimensions \in DimensionsArgs :
        GetDsd(module, force_reload, dimensions)

CallGetRegionProcessor ==
    \E module \in Modules, force_reload \in BOOLEAN :
        GetRegionProcessor(module, force_reload)

NextCache ==
    \/ CallGetDsd
    \/ CallGetRegionProcessor

NextNames ==
    \/ CallGetAggregateVar
    \/ CallGetComponentVars

NextVarCheck == CallCheckVarAggregates

NextManual == CallCheckVarAggregatesManual

NextRegionCheck == CallCheckRegionAggregates

NextMerge == CallMergeRegionProcessors

NextMapping ==
    \/ CallGetInvalidModelRegions
    \/ CallMapRegions

Next ==
    \/ CallGetAggregateVar
    \/ CallGetComponentVars
    \/ CallCheckVarAggregates
    \/ CallCheckVarAggregatesManual
    \/ CallCheckRegionAggregates
    \/ CallGetInvalidModelRegions
    \/ CallMapRegions
    \/ CallMergeRegionProcessors
    \/ CallGetDsd
    \/ CallGetRegionProcessor

\* the calls of the name helpers of var_utils
SpecNames == InitNames /\ [][NextNames]_vars

\* the calls of check_var_aggregates
SpecVarCheck == InitVarCheck /\ [][NextVarCheck]_vars

\* the calls of check_var_aggregates_manual
SpecManual == InitManual /\ [][NextManual]_vars

\* the calls of check_region_aggregates
SpecRegionCheck == InitRegionCheck /\ [][NextRegionCheck]_vars

\* the calls of check_region_aggregates on data with values
SpecRegionValues == InitRegionValues /\ [][NextRegionCheck]_vars

\* the calls of get_invalid_model_regions and map_regions
SpecMapping == InitMapping /\ [][NextMapping]_vars

\* the calls of merge_region_processors
SpecMerge == InitMerge /\ [][NextMerge]_vars

\* the calls of get_dsd and get_region_processor, in any order
SpecCache == InitCache /\ [][NextCache]_vars

\* all calls
Spec == Init /\ [][Next]_vars

(***************************************************************************)
(* Properties of the name helpers.                                         *)
(***************************************************************************)
Done(f) == pc = "done" /\ op = f

\* number of separators of a name, counted on its segments
NumSeps(name) == Len(Split(name, Sep)) - 1

\* name followed by a separator is a character prefix of k
HasPrefixAndSep(k, name) ==
    /\ Len(k) > Len(name)
    /\ \A i \in 1..Len(name) : k[i] = name[i]
    /\ k[Len(name) + 1] = Sep

\* the known names get_component_vars is specified to return
WithinDepth(k, name, num_sublevels) ==
    /\ HasPrefixAndSep(k, name)
    /\ \/ IsNone(num_sublevels)
       \/ NumSeps(k) - NumSeps(name) <= num_sublevels[1]

\* C7 as stated: for every name and every set of known names,
\* get_component_vars returns every known name that starts with
\* name + separator and has at most max_depth more separators than name.
C7_ReturnsEveryDescendant ==
    Done("get_component_vars") =>
        \A k \in SeqToSet(args.iamdf) :
            WithinDepth(k, args.varname, args.num_sublevels)
                => k \in SeqToSet(ret)

\* C7 amended: when name is itself one of the known names,
\* get_component_vars returns every known name that starts with
\* name + separator and has at most max_depth more separators than name;
\* when name is not a known name it returns the empty list.
C7_ReturnsEveryDescendantOfKnownName ==
    Done("get_component_vars") =>
        IF args.varname \in SeqToSet(args.iamdf)
        THEN \A k \in SeqToSet(args.iamdf) :
                 WithinDepth(k, args.varname, args.num_sublevels)
                     => k \in SeqToSet(ret)
        ELSE ret = << >>

\* a call with depth 1 that returns two children and leaves out a deeper
\* descendant
C7_Witness ==
    /\ Done("get_component_vars")
    /\ args.num_sublevels = Some(1)
    /\ Len(ret) >= 2
    /\ \E k \in SeqToSet(args.iamdf) :
           HasPrefixAndSep(k, args.varname) /\ k \notin SeqToSet(ret)

\* the segments of name are a proper prefix of the segments of k
IsSegmentDescendant(k, name) ==
    LET ks == Split(k, Sep)
        ns == Split(name, Sep)
    IN  /\ Len(ks) > Len(ns)
        /\ SubSeq(ks, 1, Len(ns)) = ns

\* C8: the result of get_component_vars never contains the name itself,
\* nor a known name that only shares a character prefix with it, nor an
\* unrelated name: every returned name extends name by whole segments.
C8_OnlySegmentDescendants ==
    Done("get_component_vars") =>
        \A r \in SeqToSet(ret) :
            /\ r # args.varname
            /\ IsSegmentDescendant(r, args.varname)

\* "A|1" is asked for, "A|12" and "A|12|x" are known and are not returned
\* while a real child is
C8_Witness ==
    /\ Done("get_component_vars")
    /\ args.varname = <<"A", "|", "1">>
    /\ <<"A", "|", "1", "2">> \in SeqToSet(args.iamdf)
    /\ <<"A", "|", "1", "2", "|", "x">> \in SeqToSet(args.iamdf)
    /\ <<"A", "|", "1", "2">> \notin SeqToSet(ret)
    /\ <<"A", "|", "1", "|", "x">> \in SeqToSet(ret)

\* C9: for every integer depth n, every name returned by
\* get_component_vars has at most n more separators than the name asked
\* for; with n = 1 only direct children are returned.
C9_DepthLimit ==
    (Done("get_component_vars") /\ ~IsNone(args.num_sublevels)) =>
        \A r \in SeqToSet(ret) :
            NumSeps(r) - NumSeps(args.varname) <= args.num_sublevels[1]

\* depth 1 on a name with known children and known grandchildren
C9_Witness ==
    /\ Done("get_component_vars")
    /\ args.num_sublevels = Some(1)
    /\ Len(ret) >= 1
    /\ \E k \in SeqToSet(args.iamdf) :
           /\ HasPrefixAndSep(k, args.varname)
           /\ NumSeps(k) - NumSeps(args.varname) = 2

\* C10: for a name without separator get_aggregate_var returns None, for
\* any known names, both values of check_all_levels, and without dataset.
C10_TopLevelHasNoParent ==
    (/\ Done("get_aggregate_var")
     /\ \A i \in 1..Len(args.varname) : args.varname[i] # Sep)
        => ret = None

\* a top-level name looked up without a dataset
C10_Witness ==
    /\ Done("get_aggregate_var")
    /\ args.varname = <<"B">>
    /\ IsNone(args.iamdf)
    /\ ret = None

\* a top-level name looked up on every level of a dataset that holds it
C10_WitnessWithDataset ==
    /\ Done("get_aggregate_var")
    /\ args.varname = <<"A">>
    /\ ~IsNone(args.iamdf)
    /\ <<"A">> \in SeqToSet(args.iamdf[1])
    /\ args.check_all_levels
    /\ ret = None

\* the proper ancestors of a name: what precedes each of its separators
ProperAncestors(name) ==
    {SubSeq(name, 1, i - 1) : i \in {j \in 1..Len(name) : name[j] = Sep}}

\* the ancestor that precedes the last separator
DirectParent(name) ==
    CHOOSE p \in ProperAncestors(name) :
        \A q \in ProperAncestors(name) : Len(q) <= Len(p)

\* C11: with check_all_levels false and known names supplied,
\* get_aggregate_var returns the direct parent (the name without its last
\* segment) if and only if that exact name is known, and None otherwise,
\* also when a higher ancestor is known.
C11_DirectParentOnly ==
    (/\ Done("get_aggregate_var")
     /\ ~IsNone(args.iamdf)
     /\ ~args.check_all_levels)
        => IF /\ ProperAncestors(args.varname) # {}
              /\ DirectParent(args.varname) \in SeqToSet(args.iamdf[1])
           THEN ret = Some(DirectParent(args.varname))
           ELSE ret = None

\* "A|1|x|y" is looked up; its parent "A|1|x" is not known but "A|1" is
C11_Witness ==
    /\ Done("get_aggregate_var")
    /\ ~args.check_all_levels
    /\ args.varname = <<"A", "|", "1", "|", "x", "|", "y">>
    /\ ~IsNone(args.iamdf)
    /\ <<"A", "|", "1", "|", "x">> \notin SeqToSet(args.iamdf[1])
    /\ <<"A", "|", "1">> \in SeqToSet(args.iamdf[1])
    /\ ret = None

\* the known proper ancestors of the name looked up
KnownAncestors == ProperAncestors(args.varname) \cap SeqToSet(args.iamdf[1])

\* C12: with check_all_levels true, get_aggregate_var returns the nearest
\* (longest) proper ancestor of the name that is known, and None exactly
\* when no proper ancestor is known.
C12_NearestKnownAncestor ==
    (/\ Done("get_aggregate_var")
     /\ ~IsNone(args.iamdf)
     /\ args.check_all_levels)
        => IF KnownAncestors = {} THEN ret = None
           ELSE /\ ret # None
                /\ ret[1] \in KnownAncestors
                /\ \A q \in KnownAncestors : Len(q) <= Len(ret[1])

\* "A" and "A|1" are known, "A|1|x" is not: "A|1" is returned for
\* "A|1|x|y"
C12_Witness ==
    /\ Done("get_aggregate_var")
    /\ args.check_all_levels
    /\ args.varname = <<"A", "|", "1", "|", "x", "|", "y">>
    /\ ~IsNone(args.iamdf)
    /\ <<"A", "|", "1", "|", "x">> \notin SeqToSet(args.iamdf[1])
    /\ <<"A">> \in SeqToSet(args.iamdf[1])
    /\ ret = Some(<<"A", "|", "1">>)

(***************************************************************************)
(* Properties of check_var_aggregates.                                     *)
(***************************************************************************)
\* the variables of the dataset passed to the call
InputVariables == {k[2] : k \in DOMAIN args.iamdf}

\* the rows of failed_checks (none when it is None)
FailedRows == IF IsNone(ret.failed_checks) THEN {} ELSE ret.failed_checks[1]

\* the names in `names` with a datapoint in group g of the dataset
PresentIn(g, names) == {c \in names : <<g, c>> \in DOMAIN args.iamdf}

RECURSIVE InputSum(_, _)
InputSum(g, names) ==
    IF names = {} THEN 0
    ELSE LET n == CHOOSE x \in names : TRUE
         IN  args.iamdf[<<g, n>>] + InputSum(g, names \ {n})

\* the tolerances of the call, in units of 1e-8
RtolInForce == IF args.rtol = None THEN 1000 ELSE args.rtol[1]

AtolInForce == IF args.atol = None THEN 1 ELSE args.atol[1]

\* abs(a - s) > atol + rtol * abs(s)
BeyondTolerance(a, s) ==
    100000000 * Abs(a - s) > AtolInForce + RtolInForce * Abs(s)

\* abs(a - s) > atol + rtol * abs(a)
BeyondToleranceOfAggregate(a, s) ==
    100000000 * Abs(a - s) > AtolInForce + RtolInForce * Abs(a)

\* k is one segment below v
IsDirectChild(k, v) ==
    LET ks == Split(k, Sep)
        vs == Split(v, Sep)
    IN  Len(ks) = Len(vs) + 1 /\ SubSeq(ks, 1, Len(vs)) = vs

\* the variables the call is specified to check
Checkable ==
    {v \in InputVariables :
        v \in DOMAIN args.dsd /\ args.dsd[v].check_aggregate}

\* C1: for a checkable aggregate with inferred components, in every group
\* where the aggregate and at least one of its direct children in the
\* dataset have a datapoint, there is a failure row exactly if the
\* aggregate differs beyond tolerance from the sum of all those children
\* (the components listed in aggregation_map), and the row carries the
\* aggregate value and that sum.
C1_InferredComponentsCompared ==
    Done("check_var_aggregates") =>
        \A v \in Checkable : \A g \in Groups :
            LET children == {k \in InputVariables : IsDirectChild(k, v)}
                a == args.iamdf[<<g, v>>]
                s == InputSum(g, PresentIn(g, children))
                row == [name |-> v, hierarchy |-> "", group |-> g,
                        variable |-> a, components |-> s]
            IN  (/\ args.dsd[v].components.kind = "none"
                 /\ <<g, v>> \in DOMAIN args.iamdf
                 /\ PresentIn(g, children) # {})
                    => /\ SeqToSet(ret.aggregation_map[v].names) = children
                       /\ row \in FailedRows <=> BeyondTolerance(a, s)
                       /\ \A r \in FailedRows :
                              (r.name = v /\ r.group = g) => r = row

\* the component lists checked for v: the declared ones, each with the name
\* of its hierarchy ("" for a single list), or the direct children
ComponentLists(v) ==
    LET c == args.dsd[v].components
    IN  IF c.kind = "dicts"
        THEN {<<c.dicts[i].key, SeqToSet(c.dicts[i].names)>> :
                 i \in 1..Len(c.dicts)}
        ELSE IF c.kind = "list" THEN {<<"", SeqToSet(c.names)>>}
        ELSE {<<"", {k \in InputVariables : IsDirectChild(k, v)}>>}

\* the components the comparison sums in group g: the listed components
\* with a datapoint in the data handed to dsd.check_aggregate
SummedIn(g, names) == PresentIn(g, names \cap Checkable)

\* there is a failure row for v, hierarchy h and group g exactly if
\* beyond(aggregate, sum) holds, for every comparison that is made
FailsExactlyWhen(beyond(_, _)) ==
    \A v \in Checkable : \A g \in Groups : \A cl \in ComponentLists(v) :
        LET a == args.iamdf[<<g, v>>]
            s == InputSum(g, SummedIn(g, cl[2]))
            row == [name |-> v, hierarchy |-> cl[1], group |-> g,
                    variable |-> a, components |-> s]
        IN  (<<g, v>> \in DOMAIN args.iamdf /\ SummedIn(g, cl[2]) # {})
                => (row \in FailedRows <=> beyond(a, s))

\* C3 as stated: a comparison fails exactly when
\* abs(aggregate - components_sum) > atol + rtol * abs(aggregate), with
\* rtol = 1e-5 and atol = 1e-8 when the caller passes none.
C3_ToleranceOfAggregate ==
    Done("check_var_aggregates") =>
        FailsExactlyWhen(BeyondToleranceOfAggregate)

\* C3 amended: a comparison fails exactly when
\* abs(aggregate - components_sum) > atol + rtol * abs(components_sum),
\* with rtol = 1e-5 and atol = 1e-8 when the caller passes none; with
\* rtol = 0 an aggregate atol above the sum passes and one further above
\* fails.
C3_ToleranceOfComponentSum ==
    Done("check_var_aggregates") => FailsExactlyWhen(BeyondTolerance)

\* rtol = 0.5 and the default atol: aggregate 1 against component sum 2 is
\* within 0.5 * 2 of it and passes, though not within 0.5 * 1
C3_Witness ==
    /\ Done("check_var_aggregates")
    /\ args.rtol = Some(50000000) /\ args.atol = None
    /\ \E v \in Checkable : \E g \in Groups : \E cl \in ComponentLists(v) :
           /\ <<g, v>> \in DOMAIN args.iamdf
           /\ SummedIn(g, cl[2]) # {}
           /\ args.iamdf[<<g, v>>] = 1
           /\ InputSum(g, SummedIn(g, cl[2])) = 2
           /\ \A r \in FailedRows : r.name # v

\* C4: the keys of aggregation_map are exactly the variables that occur
\* in the dataset, are defined in the codelist and have check_aggregate.
C4_AggregationMapKeys ==
    Done("check_var_aggregates") => DOMAIN ret.aggregation_map = Checkable

\* a dataset with a checkable variable, a variable the codelist does not
\* check and a variable the codelist does not define
C4_Witness ==
    /\ Done("check_var_aggregates")
    /\ DOMAIN ret.aggregation_map # {}
    /\ \E v \in InputVariables :
           v \in DOMAIN args.dsd /\ ~args.dsd[v].check_aggregate
    /\ \E v \in InputVariables : v \notin DOMAIN args.dsd

\* the dataset variables one segment below v, in dataset order
DirectChildrenList(v) ==
    SelectSeq(NameUniverse,
              LAMBDA k : k \in InputVariables /\ IsDirectChild(k, v))

\* C5: for every checkable aggregate the recorded components are the
\* codelist's declaration, unchanged, when there is one, and otherwise
\* the list of the dataset variables that are its direct descendants.
C5_RecordedComponents ==
    Done("check_var_aggregates") =>
        \A v \in Checkable :
            IF args.dsd[v].components.kind # "none"
            THEN ret.aggregation_map[v] = args.dsd[v].components
            ELSE /\ ret.aggregation_map[v].kind = "list"
                 /\ ret.aggregation_map[v].names = DirectChildrenList(v)

\* components are inferred for "A" in a dataset holding a child and a
\* grandchild of it
C5_Witness ==
    /\ Done("check_var_aggregates")
    /\ <<"A">> \in Checkable
    /\ args.dsd[<<"A">>].components.kind = "none"
    /\ <<"A", "|", "1", "|", "x">> \in InputVariables
    /\ ret.aggregation_map[<<"A">>].names = << <<"A", "|", "2">> >>

\* named component lists are declared for "A"
C5_WitnessDeclared ==
    /\ Done("check_var_aggregates")
    /\ <<"A">> \in Checkable
    /\ ret.aggregation_map[<<"A">>].kind = "dicts"
    /\ Len(ret.aggregation_map[<<"A">>].dicts) = 2

\* C6: unknown is the dataset variables absent from the codelist,
\* not_checked the dataset variables in the codelist without
\* check_aggregate; these two and the keys of aggregation_map are pairwise
\* disjoint and together are all variables of the dataset.
C6_Partition ==
    Done("check_var_aggregates") =>
        LET unknown == SeqToSet(ret.unkonwn)
            not_checked == SeqToSet(ret.not_checked)
            keys == DOMAIN ret.aggregation_map
        IN  /\ unknown = {v \in InputVariables : v \notin DOMAIN args.dsd}
            /\ not_checked =
                   {v \in InputVariables :
                       v \in DOMAIN args.dsd /\ ~args.dsd[v].check_aggregate}
            /\ unknown \cap not_checked = {}
            /\ unknown \cap keys = {}
            /\ not_checked \cap keys = {}
            /\ unknown \cup not_checked \cup keys = InputVariables
            /\ Len(ret.unkonwn) = Cardinality(unknown)
            /\ Len(ret.not_checked) = Cardinality(not_checked)

\* all three parts are non-empty
C6_Witness ==
    /\ Done("check_var_aggregates")
    /\ Len(ret.unkonwn) > 0
    /\ Len(ret.not_checked) > 0
    /\ DOMAIN ret.aggregation_map # {}

(***************************************************************************)
(* Properties of check_region_aggregates.                                  *)
(***************************************************************************)
CodelistsMatch ==
    /\ args.dsd.variable = args.processor.variable_codelist
    /\ args.dsd.region = args.processor.region_codelist

\* C2: when the codelists of dsd and processor match,
\* check_region_aggregates returns a result for every dataset, whatever
\* known and unknown models, regions and variables it holds, and raises
\* no exception (the region processing of the nomenclature package not
\* failing on its side).
C2_MatchingCodelistsGiveResult ==
    (/\ Done("check_region_aggregates")
     /\ CodelistsMatch
     /\ args.library.outcome # "raises")
        => ret.kind = "result"

\* C13: when the variable codelist or the region codelist of dsd differs
\* from the processor's, check_region_aggregates raises the ValueError about
\* the codelists, whatever the data holds and whatever the region processing
\* would have done, and returns no result.
C13_MismatchRaisesFirst ==
    (Done("check_region_aggregates") /\ ~CodelistsMatch)
        => ret = Raised("ValueError: codelists do not match")

\* only the region codelists differ; the data (a known model with native
\* regions only) and the region processing would each have raised otherwise
C13_Witness ==
    /\ Done("check_region_aggregates")
    /\ args.dsd.variable = args.processor.variable_codelist
    /\ args.dsd.region # args.processor.region_codelist
    /\ args.iamdf.rows = {<<"M", "R1">>}
    /\ "M" \in DOMAIN args.processor.mappings
    /\ args.library.outcome = "raises"
    /\ ret = Raised("ValueError: codelists do not match")

\* the models of the dataset that the mapping store holds, and the others
KnownModels ==
    {m \in SeqToSet(DataModels(args.iamdf)) :
        m \in DOMAIN args.processor.mappings}

UnknownModels == SeqToSet(DataModels(args.iamdf)) \ KnownModels

\* C14: a dataset that holds a model absent from the mapping store is
\* processed without an exception (the region processing not failing on its
\* side); unknown_models is exactly the dataset models absent from the
\* store and the keys of aggregation_map are exactly the other dataset
\* models.
C14_ModelsPartitioned ==
    (/\ Done("check_region_aggregates")
     /\ CodelistsMatch
     /\ args.library.outcome # "raises"
     /\ UnknownModels # {})
        => /\ ret.kind = "result"
           /\ SeqToSet(ret.unknown_models) = UnknownModels
           /\ DOMAIN ret.aggregation_map = KnownModels

\* the regions of model m in the data
SliceRegions(m) == SeqToSet(DataRegions(args.iamdf, m))

NativeRegions(m) ==
    SeqToSet(args.processor.mappings[m].model_native_region_names)

CommonRegionList(m) ==
    IF IsNone(args.processor.mappings[m].common_regions) THEN << >>
    ELSE args.processor.mappings[m].common_regions[1]

CommonRegions(m) ==
    {CommonRegionList(m)[i].name : i \in 1..Len(CommonRegionList(m))}

ConstituentRegions(m) ==
    UNION {SeqToSet(CommonRegionList(m)[i].constituent_regions) :
              i \in 1..Len(CommonRegionList(m))}

\* the regions reported as unknown for model m in the result
ReportedUnknown(m) ==
    IF m \in DOMAIN ret.unkonwn_regions
    THEN SeqToSet(ret.unkonwn_regions[m]) ELSE {}

\* C15: in a result, the regions reported as unknown for a known model are
\* exactly the regions of its data that are neither native regions nor
\* common regions of its mapping; a common region found in the data is not
\* reported as unknown.
C15_UnknownRegions ==
    (Done("check_region_aggregates") /\ ret.kind = "result")
        => \A m \in KnownModels :
              ReportedUnknown(m) =
                  SliceRegions(m) \ (NativeRegions(m) \cup CommonRegions(m))

\* C16: in a result, regions_not_checked of a known model holds exactly the
\* regions of its data that are not reported as unknown, are not a common
\* region of its mapping and are not a constituent of one; it never holds a
\* constituent region or a region reported as unknown.
C16_RegionsNotChecked ==
    (Done("check_region_aggregates") /\ ret.kind = "result")
        => \A m \in KnownModels :
              SeqToSet(ret.regions_not_checked[m]) =
                  SliceRegions(m) \ (ReportedUnknown(m)
                                       \cup CommonRegions(m)
                                       \cup ConstituentRegions(m))

\* C17: when the region processing has nothing to combine (and the
\* codelists match), check_region_aggregates raises no exception and
\* returns a result with an empty processed dataset and no failure table.
C17_NothingToCombine ==
    (/\ Done("check_region_aggregates")
     /\ CodelistsMatch
     /\ args.library.outcome = "nothing")
        => /\ ret.kind = "result"
           /\ ret.processed_data.rows = {}
           /\ IsNone(ret.failed_checks)

\* the tolerance of the region comparison in force, in hundredths
RtolDifferenceInForce ==
    IF IsNone(args.rtol_difference) THEN 1 ELSE args.rtol_difference[1]

\* the value the data reports for model m, region r and variable v
Reported(m, r, v) == args.iamdf.data[<<m, r, v>>]

RECURSIVE SumOfReported(_, _, _)
SumOfReported(m, regions, v) ==
    IF regions = {} THEN 0
    ELSE LET r == CHOOSE x \in regions : TRUE
         IN  Reported(m, r, v) + SumOfReported(m, regions \ {r}, v)

CommonRegionIndexes ==
    UNION {1..Len(CommonRegionList(m)) : m \in KnownModels}

\* the comparisons that are due: a known model, one of its common regions
\* and a variable without skip-region-aggregation, for which the data
\* reports the common region and at least one of its constituents
ComparedCases ==
    {c \in KnownModels \X CommonRegionIndexes \X DOMAIN args.dsd.variable :
        /\ c[2] <= Len(CommonRegionList(c[1]))
        /\ ~args.dsd.variable[c[3]].skip_region_aggregation
        /\ Reported(c[1], CommonRegionList(c[1])[c[2]].name, c[3]) # NoRow
        /\ \E r \in SeqToSet(CommonRegionList(c[1])[c[2]].constituent_regions) :
               Reported(c[1], r, c[3]) # NoRow}

CommonRegionOf(c) == CommonRegionList(c[1])[c[2]].name

ReportedValue(c) == Reported(c[1], CommonRegionOf(c), c[3])

ConstituentSum(c) ==
    SumOfReported(c[1],
                  SeqToSet(CommonRegionList(c[1])[c[2]].constituent_regions),
                  c[3])

\* the failure rows of a comparison
RowsFor(c) ==
    {row \in ret.failed_checks[1] :
        /\ row.model = c[1]
        /\ row.region = CommonRegionOf(c)
        /\ row.variable = c[3]}

\* the row carries the two values and 100 * abs(reported - sum) / reported
CarriesPercentage(row, c) ==
    /\ row.original = ReportedValue(c)
    /\ row.aggregated = ConstituentSum(c)
    /\ row.difference.num * Abs(ReportedValue(c)) =
           100 * Abs(ReportedValue(c) - ConstituentSum(c)) * row.difference.den
    /\ row.difference.den # 0

\* every comparison that is due fails exactly when `beyond` holds of its
\* reported value and constituent sum, with one row that carries the
\* percentage difference, and there are no other failure rows
RegionFailsExactlyWhen(beyond(_, _)) ==
    (Done("check_region_aggregates") /\ ComparedCases # {})
        => /\ ret.kind = "result"
           /\ ~IsNone(ret.failed_checks)
           /\ \A c \in ComparedCases :
                 IF beyond(ReportedValue(c), ConstituentSum(c))
                 THEN /\ Cardinality(RowsFor(c)) = 1
                      /\ \A row \in RowsFor(c) : CarriesPercentage(row, c)
                 ELSE RowsFor(c) = {}
           /\ ret.failed_checks[1] = UNION {RowsFor(c) : c \in ComparedCases}

\* the percentage difference, taken of the reported value, exceeds the
\* tolerance
PercentOfReportedBeyond(reported, sum) ==
    100 * Abs(reported - sum) > RtolDifferenceInForce * Abs(reported)

\* the difference exceeds the tolerance taken of the constituent sum
PercentOfSumBeyond(reported, sum) ==
    100 * Abs(reported - sum) > RtolDifferenceInForce * Abs(sum)

C18_WitnessWithinToleranceOfSum ==
    /\ Done("check_region_aggregates")
    /\ IsNone(args.rtol_difference)
    /\ Reported("M", "World", "V") = 99
    /\ ConstituentSum(<<"M", 1, "V">>) = 100
    /\ ret.kind = "result"
    /\ ret.failed_checks = Some({})

(***************************************************************************)
(* Properties of check_var_aggregates_manual.                              *)
(***************************************************************************)
\* the positions of kwargs that hold a keyword other than rtol and atol
OffendingPositions ==
    {i \in 1..Len(args.kwargs) :
        /\ args.kwargs[i].key # <<"r", "t", "o", "l">>
        /\ args.kwargs[i].key # <<"a", "t", "o", "l">>}

\* where the keyword at offending position i starts in the listing: after
\* the earlier offending keywords and one ", " for each of them
RECURSIVE LengthBefore(_, _)
LengthBefore(earlier, i) ==
    IF earlier = {} THEN 0
    ELSE LET j == CHOOSE x \in earlier : TRUE
         IN  Len(args.kwargs[j].key) + 2 + LengthBefore(earlier \ {j}, i)

StartOf(i) == LengthBefore({j \in OffendingPositions : j < i}, i)

\* `listing` names every offending keyword in passing order, with ", "
\* between two of them and nothing else
ListsOffendingKeywords(listing) ==
    /\ \A i \in OffendingPositions :
          /\ Len(listing) >= StartOf(i) + Len(args.kwargs[i].key)
          /\ SubSeq(listing, StartOf(i) + 1,
                    StartOf(i) + Len(args.kwargs[i].key)) = args.kwargs[i].key
          /\ (\E j \in OffendingPositions : j > i)
                => /\ Len(listing) >= StartOf(i) + Len(args.kwargs[i].key) + 2
                   /\ listing[StartOf(i) + Len(args.kwargs[i].key) + 1] = ","
                   /\ listing[StartOf(i) + Len(args.kwargs[i].key) + 2] = " "
          /\ (\A j \in OffendingPositions : j <= i)
                => Len(listing) = StartOf(i) + Len(args.kwargs[i].key)

\* C19: called with a keyword other than rtol and atol,
\* check_var_aggregates_manual raises TypeError whatever the dataset and
\* the other arguments are (no variable is selected or checked, nothing is
\* returned), and the message lists every offending keyword, joined by
\* ", " in the order they were passed.
C19_InvalidKeywordsRaise ==
    (Done("check_var_aggregates_manual") /\ OffendingPositions # {})
        => /\ ret.kind = "raised"
           /\ ret.error = "TypeError"
           /\ ListsOffendingKeywords(ret.message.keys)

\* "tol" and "x" are passed, in this order, with a dataset in which A
\* would fail the check: TypeError naming "tol, x"
C19_Witness ==
    /\ Done("check_var_aggregates_manual")
    /\ KwargKeys(args.kwargs) = << <<"t", "o", "l">>, <<"x">> >>
    /\ <<"g1", <<"A">> >> \in DOMAIN args.iamdf
    /\ <<"g1", <<"A", "|", "1">> >> \in DOMAIN args.iamdf
    /\ args.iamdf[<<"g1", <<"A">> >>] # args.iamdf[<<"g1", <<"A", "|", "1">> >>]
    /\ ret.kind = "raised"
    /\ ret.message.keys = <<"t", "o", "l", ",", " ", "x">>
    /\ ret.message.plural = "s"

\* an offending keyword after a valid one: only the offending one is named
C19_WitnessOneOffending ==
    /\ Done("check_var_aggregates_manual")
    /\ KwargKeys(args.kwargs) = << <<"r", "t", "o", "l">>, <<"x">> >>
    /\ ret.kind = "raised"
    /\ ret.message.keys = <<"x">>
    /\ ret.message.plural = ""

(***************************************************************************)
(* Properties of the cached definitions.                                   *)
(***************************************************************************)
\* the calls of `function` of the module of call i made before call i
EarlierCalls(i, function) ==
    {j \in 1..(i - 1) :
        /\ history[j].module = history[i].module
        /\ history[j].function = function}

\* call i is the first call of its function in its module
FirstCall(i) == EarlierCalls(i, history[i].function) = {}

\* the calls of the function of call i, up to and including i, in which
\* its loader ran
LoadsUpTo(i) ==
    {j \in EarlierCalls(i, history[i].function) \cup {i} : history[j].loaded}

\* between the previous call of its function and call i, the definitions
\* of the module were not reloaded with force_reload=True
InSequence(i) ==
    \A j \in EarlierCalls(i, "get_dsd") :
        history[j].force_reload
            => \E k \in EarlierCalls(i, history[i].function) : k > j

\* C20: in a sequence of get_dsd calls of a module the loader runs exactly
\* on the first call and on the calls with force_reload=True, and every
\* call returns the object produced by the most recent load; the same
\* holds of get_region_processor in a sequence of get_region_processor
\* calls (no forced reload of the definitions in between).
C20_LazyAndCached ==
    \A i \in 1..Len(history) :
        /\ (history[i].function = "get_dsd" \/ InSequence(i))
              => (history[i].loaded <=> (FirstCall(i) \/ history[i].force_reload))
        /\ LoadsUpTo(i) # {}
        /\ \E j \in LoadsUpTo(i) :
              /\ \A k \in LoadsUpTo(i) : k <= j
              /\ history[i].returned = history[j].returned
        /\ \A j \in 1..Len(history) :
              (history[j].loaded /\ history[i].loaded /\ i # j)
                  => history[i].returned # history[j].returned

\* get_dsd() loads, get_dsd(force_reload=True) loads again, and the
\* get_dsd() after it returns the second object without loading
C20_Witness ==
    /\ Len(history) = 3
    /\ \A i \in 1..3 : /\ history[i].function = "get_dsd"
                       /\ history[i].module = Package
    /\ ~history[1].force_reload /\ history[1].loaded
    /\ history[2].force_reload /\ history[2].loaded
    /\ ~history[3].force_reload /\ ~history[3].loaded
    /\ history[3].returned = history[2].returned
    /\ history[2].returned # history[1].returned
    /\ ret = _dsd[Package][1]

\* the same with get_region_processor, whose first load also loads the
\* definitions
C20_WitnessRegionProcessor ==
    /\ Len(history) = 3
    /\ \A i \in 1..3 : history[i].module = DefaultDefinitions
    /\ history[1].function = "get_dsd" /\ history[1].loaded
    /\ history[2].function = "get_region_processor" /\ history[2].loaded
    /\ history[3].function = "get_region_processor" /\ ~history[3].loaded
    /\ history[3].returned = history[2].returned
    /\ ret = _region_processor[DefaultDefinitions][1]
    /\ ret.dsd = _dsd[DefaultDefinitions][1]

\* the last call made
LastCall == history[Len(history)]

\* the last call is get_region_processor() without force_reload in
\* `module`, and since the previous get_region_processor call of the
\* module, which left a processor cached, get_dsd(force_reload=True) was
\* called
FirstProcessorCallAfterReload(module) ==
    /\ Len(history) > 0
    /\ LastCall.module = module
    /\ LastCall.function = "get_region_processor"
    /\ ~LastCall.force_reload
    /\ \E j \in EarlierCalls(Len(history), "get_dsd") :
          /\ history[j].force_reload
          /\ \A k \in EarlierCalls(Len(history), "get_region_processor") : k < j
          /\ \E k \in EarlierCalls(Len(history), "get_region_processor") : k < j

\* C21: after get_dsd(force_reload=True) of the package, the next
\* get_region_processor() of the package loads a new region processor,
\* built from the reloaded definitions, instead of returning the processor
\* cached before the reload.
C21_ReloadInvalidatesProcessor ==
    FirstProcessorCallAfterReload(Package)
        => /\ LastCall.loaded
           /\ \A k \in EarlierCalls(Len(history), "get_region_processor") :
                 history[k].returned # LastCall.returned
           /\ ret.dsd = _dsd[Package][1]

(***************************************************************************)
(* Properties of the checks taken together.                                *)
(***************************************************************************)
CheckingFunctions ==
    {"check_var_aggregates", "check_var_aggregates_manual",
     "check_region_aggregates"}

\* C22: a call of check_var_aggregates, check_var_aggregates_manual or
\* check_region_aggregates, whether it returns or raises, leaves its
\* arguments (dataset, definitions, region mappings, list of variables) as
\* they were.
C22_InputsUnchanged ==
    [][(op \in CheckingFunctions /\ pc = "call" /\ pc' = "done")
           => args' = args]_vars

\* check_var_aggregates_manual was given ["A"], added the child "A|1" of
\* "A" to the variables it checks, and the list given still is ["A"]
C22_Witness ==
    /\ Done("check_var_aggregates_manual")
    /\ args.variables = Some(<< <<"A">> >>)
    /\ ret.kind = "returned"
    /\ <<"A">> \in DOMAIN ret.aggregation_map
    /\ SublevelVars(DataVariables(args.iamdf), args.variables[1],
                    args.num_sublevels) # << >>

\* in the mapping of model m some region is a constituent of two common
\* regions
OverlappingMapping(m) ==
    \E i, j \in 1..Len(CommonRegionList(m)) :
        /\ i # j
        /\ SeqToSet(CommonRegionList(m)[i].constituent_regions)
               \cap SeqToSet(CommonRegionList(m)[j].constituent_regions) # {}

\* the dataset holds a known model with an overlapping mapping
OverlapInUse == \E m \in KnownModels : OverlappingMapping(m)

RaisesRegardlessOfOverlap ==
    \/ ~CodelistsMatch
    \/ \E m \in KnownModels : SliceRegions(m) \subseteq NativeRegions(m)
    \/ args.library.outcome = "raises"

Repeated == Done("check_var_aggregates") /\ history # << >>

C25_SmallerSumNotReported ==
    (/\ Done("check_var_aggregates_manual")
     /\ ret.kind = "returned"
     /\ ~args.require_complete
     /\ ~IsNone(ret.failed_checks))
        => \A r \in ret.failed_checks[1] :
              (~IsNone(r.variable) /\ ~IsNone(r.components))
                  => ~(r.components[1] < r.variable[1])

\* the variables of the dataset of the call
DatasetVars == SeqToSet(DataVariables(args.iamdf))

\* the dataset variables directly below name, in dataset order
DirectChildren(name) ==
    SelectSeq(DataVariables(args.iamdf), LAMBDA k :
        HasPrefixAndSep(k, name) /\ NumSeps(k) = NumSeps(name) + 1)

\* k is a dataset variable below name, within the levels asked for
DescendantWithinSublevels(k, name) ==
    /\ k \in DatasetVars
    /\ HasPrefixAndSep(k, name)
    /\ args.num_sublevels # Some(0)
    /\ IsNone(args.num_sublevels)
           \/ NumSeps(k) - NumSeps(name) <= args.num_sublevels[1]

\* the variables given, or the dataset variables without direct parent in
\* the dataset
GivenVariables ==
    IF IsNone(args.variables)
    THEN {v \in DatasetVars :
             \A p \in DatasetVars :
                 ~(HasPrefixAndSep(v, p) /\ NumSeps(v) = NumSeps(p) + 1)}
    ELSE SeqToSet(args.variables[1])

\* the given variables and their descendants
GivenAndDescendants(given) ==
    given \cup {k \in DatasetVars :
                   \E v \in given : DescendantWithinSublevels(k, v)}

\* aggregation_map has the variables of `checked` with a direct child as
\* keys, each with its direct children
AggregationMapIsOver(checked) ==
    /\ DOMAIN ret.aggregation_map
           = {v \in checked : DirectChildren(v) # << >>}
    /\ \A v \in DOMAIN ret.aggregation_map :
           ret.aggregation_map[v] = DirectChildren(v)

\* C26 as stated: the variables checked by check_var_aggregates_manual are
\* the given variables (by default those without direct parent in the
\* dataset) and their dataset descendants within num_sublevels levels;
\* aggregation_map maps each of them that has a direct child in the dataset
\* to its direct children.
C26_CheckedVariables ==
    (Done("check_var_aggregates_manual") /\ ret.kind = "returned")
        => AggregationMapIsOver(GivenAndDescendants(GivenVariables))

\* C26, amended: a given variable that is not in the dataset is not checked
\* and brings in no descendants.
C26_CheckedVariablesOfDataset ==
    (Done("check_var_aggregates_manual") /\ ret.kind = "returned")
        => AggregationMapIsOver(
               GivenAndDescendants(GivenVariables \cap DatasetVars))

\* "A|1" and "A" are given, "A" is not in the dataset: "A|1" is checked
\* with its child, and "A|2", a child of "A" only, is not brought in
C26_Witness ==
    /\ Done("check_var_aggregates_manual")
    /\ ret.kind = "returned"
    /\ args.variables = Some(<< <<"A", "|", "1">>, <<"A">> >>)
    /\ IsNone(args.num_sublevels)
    /\ DatasetVars = {<<"A", "|", "1">>, <<"A", "|", "1", "|", "x">>,
                      <<"A", "|", "2">>}
    /\ DOMAIN ret.aggregation_map = {<<"A", "|", "1">>}
    /\ ret.aggregation_map[<<"A", "|", "1">>] = << <<"A", "|", "1", "|", "x">> >>

(***************************************************************************)
(* Properties of map_regions and get_invalid_model_regions.                *)
(***************************************************************************)
\* region is declared a native region of model by the processor of the call
DeclaredNative(model, region) ==
    /\ model \in DOMAIN args.region_processor.mappings
    /\ region \in SeqToSet(
           args.region_processor.mappings[model].model_native_region_names)

\* the rows whose region is no common region and no native region of
\* their model
InvalidRows ==
    {k \in args.iamdf.rows :
        k[2] \notin args.dsd.region /\ ~DeclaredNative(k[1], k[2])}

\* map_regions was asked for the excluded part and the region processing
\* has returned
ExcludedAskedFor ==
    /\ Done("map_regions")
    /\ args.return_excluded = Some(TRUE)
    /\ args.library = "returns"

\* C27: map_regions with return_excluded=True returns, without raising, the
\* pair (processed, excluded): excluded has exactly the rows with an
\* invalid (region, model) combination (it is empty when there are none),
\* and region processing is given exactly the other rows.
C27_ExcludedAndProcessedPartition ==
    ExcludedAskedFor
        => /\ ret.kind = "pair"
           /\ ret.excluded = InvalidRows
           /\ ret.processed.applied_to = args.iamdf.rows \ InvalidRows

\* the non-common regions occurring in the data
NonCommonDataRegions ==
    {k[2] : k \in {q \in args.iamdf.rows : q[2] \notin args.dsd.region}}

\* the models of the data using region, for which it is not native
ModelsUsingNotNative(region) ==
    SelectSeq(ModelUniverse, LAMBDA m :
        <<m, region>> \in args.iamdf.rows /\ ~DeclaredNative(m, region))

\* the first dict: for each non-common region of the data, the models using
\* it for which it is not native
InvalidCombosAsDescribed ==
    /\ DOMAIN ret.invalid_combos
           = {r \in NonCommonDataRegions : ModelsUsingNotNative(r) # << >>}
    /\ \A r \in DOMAIN ret.invalid_combos :
           ret.invalid_combos[r] = ModelsUsingNotNative(r)

\* the second dict: only non-common regions of the data, each with models
\* that use it in the data and declare it native
ValidCombosFoundInData ==
    \A r \in DOMAIN ret.valid_combos :
        /\ r \in NonCommonDataRegions
        /\ \A i \in 1..Len(ret.valid_combos[r]) :
              /\ <<ret.valid_combos[r][i], r>> \in args.iamdf.rows
              /\ DeclaredNative(ret.valid_combos[r][i], r)

\* C29: with return_valid_native_combos=True the second dict of
\* get_invalid_model_regions holds only (region, model) combinations found
\* in the data, of a non-common region and a model that declares it native;
\* the first dict lists for each non-common region of the data exactly the
\* models using it for which it is not native.
C29_CombosFoundInData ==
    (Done("get_invalid_model_regions") /\ ret.kind = "tuple")
        => ValidCombosFoundInData /\ InvalidCombosAsDescribed

(***************************************************************************)
(* Properties of merge_region_processors.                                  *)
(***************************************************************************)
\* the models for which some input processor has a mapping
ModelsOfInputs ==
    UNION {DOMAIN args.region_processors[i].mappings :
               i \in 1..Len(args.region_processors)}

\* the first processor, in the given order, with a mapping for model
FirstDefining(model) ==
    CHOOSE i \in 1..Len(args.region_processors) :
        /\ model \in DOMAIN args.region_processors[i].mappings
        /\ \A j \in 1..(i - 1) :
               model \notin DOMAIN args.region_processors[j].mappings

\* C28: the merged processor has a mapping for every model of any input
\* processor, and for each model it is the mapping of the first processor,
\* in the given order, that defines the model.
C28_FirstProcessorWins ==
    (Done("merge_region_processors") /\ ret.kind = "processor")
        => /\ DOMAIN ret.mappings = ModelsOfInputs
           /\ \A m \in ModelsOfInputs :
                 ret.mappings[m]
                     = args.region_processors[FirstDefining(m)].mappings[m]

(***************************************************************************)
(* Properties of the cache of default_definitions.                         *)
(***************************************************************************)
\* C30: in default_definitions a cached region processor was built from
\* the definitions object that is cached now, and get_region_processor
\* returns a processor built from the definitions cached at its return,
\* after any sequence of get_dsd and get_region_processor calls.
C30_ProcessorNeverStale ==
    /\ ~IsNone(_region_processor[DefaultDefinitions])
           => /\ ~IsNone(_dsd[DefaultDefinitions])
              /\ _region_processor[DefaultDefinitions][1].dsd
                     = _dsd[DefaultDefinitions][1]
    /\ (Done("get_region_processor") /\ args.module = DefaultDefinitions)
           => ret.dsd = _dsd[DefaultDefinitions][1]

\* the processor is asked for, the definitions are reloaded, the processor
\* is asked for again without force_reload: it has been rebuilt
C30_Witness ==
    /\ Done("get_region_processor")
    /\ args.module = DefaultDefinitions
    /\ ~args.force_reload
    /\ \E j, k \in 1..Len(history) :
          /\ j < k
          /\ history[j].module = DefaultDefinitions
          /\ history[j].function = "get_region_processor"
          /\ history[k].module = DefaultDefinitions
          /\ history[k].function = "get_dsd"
          /\ history[k].force_reload
          /\ ret.dsd.id = history[k].returned
          /\ ret.id # history[j].returned

====
